---- MODULE Spec2Model ----
(***************************************************************************)
(* A model of the succinct_neo crate: bit vectors, packed integer vectors, *)
(* rolling hashes, flat-popcount rank/select and block trees.              *)
(*                                                                         *)
(* A machine word (usize, 64 bits) is modelled as the set of the positions *)
(* of its 1-bits: position p stands for the value 2^p.  Shifts translate   *)
(* the set, and/or are intersection/union, and the word's width is kept by *)
(* dropping positions outside 0..63.                                       *)
(***************************************************************************)
EXTENDS Integers, Sequences, FiniteSets, TLC

VARIABLES
    bv_data,    \* BitVec: the backing words (Vec<usize>)
    bv_size,    \* BitVec: the length in bits
    bv_ref,     \* the reference array of booleans the BitVec is compared to
    bv_ops,     \* number of operations applied to the BitVec
    bv_last,    \* the last call on the BitVec or on a slice of it, and its outcome
    bv_split,   \* the two halves of a mutable slice, once it is split
    iv_kind,    \* packed integer vector: "dynamic" or "fixed"
    iv_width,   \* its bit width (the field width, or the const WIDTH)
    iv_data,    \* its backing words
    iv_size,    \* its number of elements
    iv_ref,     \* the sequence of values pushed and set so far
    iv_pure,    \* TRUE while the vector was built by pushes alone
    iv_prev,    \* the elements get returned before the last operation
    iv_last,    \* the last operation: <<name, index, value>>
    iv_ops,     \* number of calls so far other than a push of a value that fits
    iv_shrunk,  \* TRUE once shrink_to_fit has been called
    rh_kind,    \* rolling hash: "rabin_karp" or "cyclic"
    rh_s,       \* the text (a sequence of bytes)
    rh_w,       \* window_size
    rh_table,   \* CyclicPolynomial: the name of the character table
    rh_offset,  \* offset
    rh_hash,    \* hash (RabinKarp: two limbs; CyclicPolynomial: a word)
    rh_done,    \* done
    rh_items,   \* the items the iterator has returned: <<offset, bytes, hash>>
    rh_ended,   \* TRUE once next() has returned None
    rh_fresh,   \* TRUE while only next() has been called since construction
    fp_backing, \* FlatPopcount: the raw words of the borrowed BitVec
    fp_len,     \* the BitVec's length in bits
    fp_l1_index,     \* l1_index: a sequence of u128 entries
    fp_sampled_ones, \* sampled_ones: [data, size, width] of a DynamicIntVec
    fp_number_of_ones, \* number_of_ones
    fp_result,  \* the last query and what it returned
    pbt_input,  \* PointerBlockTree: input (a sequence of bytes)
    pbt_arity,  \* arity
    pbt_leaf_length,       \* leaf_length
    pbt_level_block_sizes, \* level_block_sizes
    pbt_level_block_count, \* level_block_count
    pbt_blocks, \* blocks: the arena
    pbt_levels, \* levels: per level the ids of its blocks
    pbt_is_internal, \* per generated level the bit vector of scan_block_pairs
    pbt_status, \* "constructing", "built" or "panicked"
    pbt_result, \* the last get and what it returned
    bt_status,  \* BlockTree: "none", "built" or "panicked"
    bt_tree,    \* the fields of the BlockTree
    bt_result   \* the last access and what it returned

bv_vars == <<bv_data, bv_size, bv_ref, bv_ops, bv_last, bv_split>>
iv_vars == <<iv_kind, iv_width, iv_data, iv_size, iv_ref, iv_pure, iv_prev, iv_last, iv_ops,
             iv_shrunk>>
rh_vars == <<rh_kind, rh_s, rh_w, rh_table, rh_offset, rh_hash, rh_done,
             rh_items, rh_ended, rh_fresh>>
fp_vars == <<fp_backing, fp_len, fp_l1_index, fp_sampled_ones, fp_number_of_ones,
             fp_result>>
pbt_vars == <<pbt_input, pbt_arity, pbt_leaf_length, pbt_level_block_sizes,
              pbt_level_block_count, pbt_blocks, pbt_levels, pbt_is_internal,
              pbt_status, pbt_result>>
bt_vars == <<bt_status, bt_tree, bt_result>>
vars == <<bv_vars, iv_vars, rh_vars, fp_vars, pbt_vars, bt_vars>>

\* the value of each component's variables in a specification that does not
\* exercise the component
BVIdle ==
    /\ bv_size = 0
    /\ bv_data = <<>>
    /\ bv_ref = <<>>
    /\ bv_ops = 0
    /\ bv_last = [op |-> "none", target |-> "none", index |-> 0, panic |-> <<>>, value |-> FALSE]
    /\ bv_split = [active |-> FALSE, slice |-> [start |-> 0, end |-> 0], index |-> 0,
                   left |-> [start |-> 0, end |-> 0], right |-> [start |-> 0, end |-> 0]]

IVIdle ==
    /\ iv_kind = "none"
    /\ iv_width = 0
    /\ iv_data = <<>>
    /\ iv_size = 0
    /\ iv_ref = <<>>
    /\ iv_pure = FALSE
    /\ iv_prev = <<>>
    /\ iv_last = <<"none", 0, {}>>
    /\ iv_ops = 0
    /\ iv_shrunk = FALSE
RHIdle ==
    /\ rh_kind = "none"
    /\ rh_s = <<>>
    /\ rh_w = 0
    /\ rh_table = "none"
    /\ rh_offset = 0
    /\ rh_hash = 0
    /\ rh_done = FALSE
    /\ rh_items = <<>>
    /\ rh_ended = FALSE
    /\ rh_fresh = FALSE
FPIdle ==
    /\ fp_backing = <<>>
    /\ fp_len = 0
    /\ fp_l1_index = <<>>
    /\ fp_sampled_ones = [data |-> <<>>, size |-> 0, width |-> 0]
    /\ fp_number_of_ones = 0
    /\ fp_result = <<"none">>
BTIdle ==
    /\ pbt_input = <<>>
    /\ pbt_arity = 0
    /\ pbt_leaf_length = 0
    /\ pbt_level_block_sizes = <<>>
    /\ pbt_level_block_count = <<>>
    /\ pbt_blocks = <<>>
    /\ pbt_levels = <<>>
    /\ pbt_is_internal = <<>>
    /\ pbt_status = "none"
    /\ pbt_result = <<"none">>
    /\ bt_status = "none"
    /\ bt_tree = <<>>
    /\ bt_result = <<"none">>

----------------------------------------------------------------------------
(* Machine words *)

WORD_SIZE == 64
WORD_EXP == 6
WordBits == 0..(WORD_SIZE - 1)
\* (1 << k) - 1
LowMask(k) == 0..(k - 1)
WORD_MASK == LowMask(WORD_EXP)
ZeroWord == {}
MaxWord == WordBits

Shl(x, k) == {p + k : p \in x} \cap WordBits
Shr(x, k) == {p - k : p \in {q \in x : q >= k}}
And(x, y) == x \cap y
Or(x, y) == x \cup y
Xor(x, y) == (x \ y) \cup (y \ x)
Not(x) == WordBits \ x
count_ones(x) == Cardinality(x)

SetMax(S) == CHOOSE m \in S : \A o \in S : o <= m
SetMin(S) == CHOOSE m \in S : \A o \in S : m <= o

\* numeric comparison of two words
WordLess(x, y) == Xor(x, y) # {} /\ SetMax(Xor(x, y)) \in y
WordLeq(x, y) == x = y \/ WordLess(x, y)

\* the word of a small natural number
Word(n) == {p \in 0..30 : (n \div (2 ^ p)) % 2 = 1}
\* the natural number of a word below 2^31
RECURSIVE Nat_of(_)
Nat_of(x) == IF x = {} THEN 0
             ELSE LET p == SetMin(x) IN 2 ^ p + Nat_of(x \ {p})

\* index >> WORD_EXP and index & WORD_MASK on naturals
ShrNat(n, k) == n \div (2 ^ k)
LowNat(n, k) == n % (2 ^ k)

----------------------------------------------------------------------------
(* bit_vec/backing.rs: bits of a primitive word are numbered from the most *)
(* significant end.                                                        *)

PRIM_SIZE == 63

word_get_bit_unchecked(w, index) == And(w, {PRIM_SIZE - index}) # {}

\* a variant that numbers the bits from the least significant end
word_set_bit_lsb_first(w, index, value) ==
    IF value THEN Or(w, {index}) ELSE And(w, Not({index}))

word_set_bit_unchecked(w, index, value) ==
    LET offset == PRIM_SIZE - index
    IN IF value THEN Or(w, {offset}) ELSE And(w, Not({offset}))

word_flip_bit_unchecked(w, index) == Xor(w, {PRIM_SIZE - index})

\* [usize] as a bit store
get_bit_unchecked(data, index) ==
    LET block_index == ShrNat(index, WORD_EXP)
        internal_index == LowNat(index, WORD_EXP)
    IN word_get_bit_unchecked(data[block_index + 1], internal_index)

set_bit_unchecked(data, index, value) ==
    LET block_index == ShrNat(index, WORD_EXP)
        internal_index == LowNat(index, WORD_EXP)
    IN [data EXCEPT ![block_index + 1] =
            word_set_bit_unchecked(@, internal_index, value)]

flip_bit_unchecked(data, index) ==
    LET block_index == ShrNat(index, WORD_EXP)
        internal_index == LowNat(index, WORD_EXP)
    IN [data EXCEPT ![block_index + 1] =
            word_flip_bit_unchecked(@, internal_index)]

----------------------------------------------------------------------------
(* bit_vec/mod.rs: BitVec *)

\* number of words of a BitVec of the given size: ceil(size / WORD_SIZE)
NumWords(size) == (size + WORD_SIZE - 1) \div WORD_SIZE

BitVecNew(size) == [k \in 1..NumWords(size) |-> ZeroWord]
BitVecOne(size) == [k \in 1..NumWords(size) |-> MaxWord]

\* the message of a failed bounds check:
\* "index is {index} but length is {length}"
IndexOutOfRange(index, length) == <<"index is", index, "but length is", length>>
NoPanic == <<>>

\* [usize]::set_bit, which checks the index against the allocated words
set_bit_of_words(data, size, index, value) ==
    IF ~(index < Len(data) * WORD_SIZE)
    THEN [panic |-> IndexOutOfRange(index, Len(data) * WORD_SIZE), data |-> data]
    ELSE [panic |-> NoPanic, data |-> set_bit_unchecked(data, index, value)]

\* BitVec::set_bit
set_bit(data, size, index, value) ==
    IF index >= size
    THEN [panic |-> IndexOutOfRange(index, size), data |-> data]
    ELSE [panic |-> NoPanic, data |-> set_bit_unchecked(data, index, value)]

\* BitVec::flip_bit
flip_bit(data, size, index) ==
    IF index >= size
    THEN [panic |-> IndexOutOfRange(index, size), data |-> data]
    ELSE [panic |-> NoPanic, data |-> flip_bit_unchecked(data, index)]

----------------------------------------------------------------------------
(* bit_vec/slice: BitSlice { backing, start, end } *)

\* BitSlice::len
slice_len(sl) == sl.end - sl.start

\* the slice a BitVec dereferences to: BitSlice::new(v, 0, size)
WholeSlice(size) == [start |-> 0, end |-> size]

\* get of a slice: the index is checked against the slice's length and
\* translated by the slice's start
slice_get(data, sl, index) ==
    IF index >= slice_len(sl)
    THEN [panic |-> IndexOutOfRange(index, slice_len(sl)), value |-> FALSE]
    ELSE [panic |-> NoPanic, value |-> get_bit_unchecked(data, sl.start + index)]

\* set of a mutable slice
slice_set(data, sl, index, value) ==
    IF index >= slice_len(sl)
    THEN [panic |-> IndexOutOfRange(index, slice_len(sl)), data |-> data]
    ELSE [panic |-> NoPanic, data |-> set_bit_unchecked(data, sl.start + index, value)]

\* flip of a mutable slice
slice_flip(data, sl, index) ==
    IF index >= slice_len(sl)
    THEN [panic |-> IndexOutOfRange(index, slice_len(sl)), data |-> data]
    ELSE [panic |-> NoPanic, data |-> flip_bit_unchecked(data, sl.start + index)]

\* BitSlice::slice_mut(start..end); a refused range gives no slice
slice_mut(sl, start, end) ==
    IF start > slice_len(sl) \/ end > slice_len(sl) \/ start > end
    THEN [panicked |-> TRUE, start |-> 0, end |-> 0]
    ELSE [panicked |-> FALSE, start |-> sl.start + start, end |-> sl.start + end]

\* a split whose right half forgets the slice's start
split_at_mut_from_zero(sl, index) ==
    IF index >= slice_len(sl)
    THEN [panic |-> IndexOutOfRange(index, slice_len(sl)),
          left |-> [start |-> 0, end |-> 0], right |-> [start |-> 0, end |-> 0]]
    ELSE [panic |-> NoPanic,
          left |-> [start |-> sl.start, end |-> sl.start + index],
          right |-> [start |-> index, end |-> sl.end]]

\* BitSlice::split_at_mut
split_at_mut(sl, index) ==
    IF index >= slice_len(sl)
    THEN [panic |-> IndexOutOfRange(index, slice_len(sl)),
          left |-> [start |-> 0, end |-> 0], right |-> [start |-> 0, end |-> 0]]
    ELSE [panic |-> NoPanic,
          left |-> [start |-> sl.start, end |-> sl.start + index],
          right |-> [start |-> sl.start + index, end |-> sl.end]]

----------------------------------------------------------------------------
(* The bit vector as a state machine *)

\* the lengths and the positions the model exercises
\* Option: None and Some(x)
None == <<"None">>
Some(x) == <<"Some", x>>

\* The loops of from_iter run over the items number lo to hi - 1; a range of
\* more than one item is run as its first half followed by its second half,
\* which keeps the evaluation shallow.

\* from_iter, the branch (_, Some(max)): bv.set(i, b) for each item; the
\* first failed bounds check ends the call
RECURSIVE from_iter_set_all(_, _, _, _)
from_iter_set_all(bv, bits, lo, hi) ==
    IF lo >= hi \/ bv.panic # NoPanic THEN bv
    ELSE IF hi = lo + 1
    THEN LET r == set_bit(bv.data, bv.size, lo, bits[lo + 1])
         IN [panic |-> r.panic, data |-> r.data, size |-> bv.size]
    ELSE CHOOSE result \in
             {from_iter_set_all(first, bits, (lo + hi) \div 2, hi) :
                 first \in {from_iter_set_all(bv, bits, lo, (lo + hi) \div 2)}} : TRUE

\* a variant of the loop body that pushes a word once the bit before its
\* last one is set
from_iter_push_early(st, i, b) ==
    LET j == i % WORD_SIZE
        cur == word_set_bit_unchecked(st.cur, j, b)
    IN IF j = WORD_SIZE - 2
       THEN [v |-> Append(st.v, cur), cur |-> ZeroWord, count |-> st.count + 1]
       ELSE [v |-> st.v, cur |-> cur, count |-> st.count + 1]

\* from_iter, the branch (min, _): the body of the loop over the items after
\* the first, item number i with the value b
from_iter_push(st, i, b) ==
    LET j == i % WORD_SIZE
        cur == word_set_bit_unchecked(st.cur, j, b)
    IN IF j = WORD_SIZE - 1
       THEN [v |-> Append(st.v, cur), cur |-> ZeroWord, count |-> st.count + 1]
       ELSE [v |-> st.v, cur |-> cur, count |-> st.count + 1]

\* from_iter, the branch (min, _): the loop over the items after the first
RECURSIVE from_iter_push_all(_, _, _, _)
from_iter_push_all(st, bits, lo, hi) ==
    IF lo >= hi THEN st
    ELSE IF hi = lo + 1 THEN from_iter_push(st, lo, bits[lo + 1])
    ELSE CHOOSE result \in
             {from_iter_push_all(first, bits, (lo + hi) \div 2, hi) :
                 first \in {from_iter_push_all(st, bits, lo, (lo + hi) \div 2)}} : TRUE

\* FromIterator<bool> for BitVec: bits are the items the iterator yields,
\* upper the upper bound of its size_hint
from_iter(bits, upper) ==
    IF upper # None
    THEN from_iter_set_all([panic |-> NoPanic, data |-> BitVecNew(upper[2]), size |-> upper[2]],
                           bits, 0, Len(bits))
    ELSE IF Len(bits) = 0 THEN [panic |-> NoPanic, data |-> BitVecNew(0), size |-> 0]
    ELSE LET st == from_iter_push_all(
                       [v |-> <<>>, cur |-> word_set_bit_unchecked(ZeroWord, 0, bits[1]),
                        count |-> 1], bits, 1, Len(bits))
         IN [panic |-> NoPanic,
             data |-> IF st.count % WORD_SIZE # 0 THEN Append(st.v, st.cur) ELSE st.v,
             size |-> st.count]

MaxBVOps == 3
BVSizes == {1, 64, 65, 130}
BVIndices(size) == {i \in {0, 1, 62, 63, 64, 65, 127, 128, 129} : i < size}
\* positions past the end: the first one, the last one of the last allocated
\* word and the first one past it
BVOutIndices(size) ==
    {i \in {size, WORD_SIZE * NumWords(size) - 1, WORD_SIZE * NumWords(size)} : i >= size}
\* the ranges of the mutable slices and the split indices
BVSliceRanges(size) == {r \in {0, 60} \X {66, size} : r[1] < r[2] /\ r[2] <= size}
BVSplitIndices(len) == {m \in {0, 1, len - 1, len} : m >= 0}
BVHalfIndices(len) == {i \in {0, 1, len - 1, len} : i >= 0}

NoSplit ==
    [active |-> FALSE, slice |-> [start |-> 0, end |-> 0], index |-> 0,
     left |-> [start |-> 0, end |-> 0], right |-> [start |-> 0, end |-> 0]]
NoCall == [op |-> "none", target |-> "none", index |-> 0, panic |-> NoPanic, value |-> FALSE]

BVInit ==
    /\ bv_size \in BVSizes
    /\ bv_data = BitVecNew(bv_size)
    /\ bv_ref = [i \in 0..(bv_size - 1) |-> FALSE]
    /\ bv_ops = 0
    /\ bv_last = NoCall
    /\ bv_split = NoSplit

\* BitVec::set_bit
BVSetBit(index, value) ==
    /\ bv_ops < MaxBVOps
    /\ ~bv_split.active
    /\ \E r \in {set_bit(bv_data, bv_size, index, value)} :
        /\ bv_data' = r.data
        /\ bv_ref' = IF r.panic = NoPanic THEN [bv_ref EXCEPT ![index] = value] ELSE bv_ref
        /\ bv_last' = [op |-> "set_bit", target |-> "vec", index |-> index,
                       panic |-> r.panic, value |-> value]
    /\ bv_ops' = bv_ops + 1
    /\ UNCHANGED <<bv_size, bv_split>>

\* BitVec::flip_bit
BVFlipBit(index) ==
    /\ bv_ops < MaxBVOps
    /\ ~bv_split.active
    /\ \E r \in {flip_bit(bv_data, bv_size, index)} :
        /\ bv_data' = r.data
        /\ bv_ref' = IF r.panic = NoPanic THEN [bv_ref EXCEPT ![index] = ~@] ELSE bv_ref
        /\ bv_last' = [op |-> "flip_bit", target |-> "vec", index |-> index,
                       panic |-> r.panic, value |-> FALSE]
    /\ bv_ops' = bv_ops + 1
    /\ UNCHANGED <<bv_size, bv_split>>

\* get on a BitVec, which dereferences to the slice over all of its bits
BVGet(index) ==
    /\ bv_ops < MaxBVOps
    /\ ~bv_split.active
    /\ \E r \in {slice_get(bv_data, WholeSlice(bv_size), index)} :
        bv_last' = [op |-> "get", target |-> "vec", index |-> index,
                    panic |-> r.panic, value |-> r.value]
    /\ bv_ops' = bv_ops + 1
    /\ UNCHANGED <<bv_data, bv_size, bv_ref, bv_split>>

\* the boolean sequences the model collects and the upper bounds their
\* iterators report: none, the number of items, one more, one less
BVIterLengths == {0, 1, 64, 65}
BVIterItems(n) == [i \in 1..n |-> (i - 1) % 3 = 0]
BVIterUppers(n) == {None} \cup {Some(m) : m \in {m \in {n - 1, n, n + 1} : m >= 0}}

\* bv = iter.collect::<BitVec>(), the first operation on bv: a call that
\* panics leaves bv as it was
BVFromIter(bits, upper) ==
    /\ bv_ops = 0
    /\ ~bv_split.active
    /\ \E r \in {from_iter(bits, upper)} :
        /\ bv_data' = IF r.panic = NoPanic THEN r.data ELSE bv_data
        /\ bv_size' = IF r.panic = NoPanic THEN r.size ELSE bv_size
        /\ bv_ref' = IF r.panic = NoPanic
                     THEN [i \in 0..(r.size - 1) |-> i < Len(bits) /\ bits[i + 1]]
                     ELSE bv_ref
        /\ bv_last' = [op |-> "from_iter", target |-> "new", index |-> 0,
                       panic |-> r.panic, value |-> FALSE, bits |-> bits, upper |-> upper]
    /\ bv_ops' = bv_ops + 1
    /\ UNCHANGED bv_split

\* bv.slice_mut(start..end).split_at_mut(index)
BVSplitAtMut(start, end, index) ==
    /\ bv_ops < MaxBVOps
    /\ ~bv_split.active
    /\ \E sl \in {slice_mut(WholeSlice(bv_size), start, end)} :
        /\ ~sl.panicked
        /\ \E r \in {split_at_mut([start |-> sl.start, end |-> sl.end], index)} :
            /\ bv_split' = IF r.panic = NoPanic
                           THEN [active |-> TRUE,
                                 slice |-> [start |-> sl.start, end |-> sl.end],
                                 index |-> index, left |-> r.left, right |-> r.right]
                           ELSE bv_split
            /\ bv_last' = [op |-> "split_at_mut", target |-> "slice", index |-> index,
                           panic |-> r.panic, value |-> FALSE]
    /\ bv_ops' = bv_ops + 1
    /\ UNCHANGED <<bv_data, bv_size, bv_ref>>

\* set through one of the two halves
BVHalfSet(half, index, value) ==
    /\ bv_ops < MaxBVOps
    /\ bv_split.active
    /\ \E sl \in {bv_split[half]} :
       \E r \in {slice_set(bv_data, sl, index, value)} :
        /\ bv_data' = r.data
        /\ bv_ref' = IF r.panic = NoPanic
                     THEN [bv_ref EXCEPT ![sl.start + index] = value] ELSE bv_ref
        /\ bv_last' = [op |-> "set", target |-> half, index |-> index,
                       panic |-> r.panic, value |-> value]
    /\ bv_ops' = bv_ops + 1
    /\ UNCHANGED <<bv_size, bv_split>>

\* flip through one of the two halves
BVHalfFlip(half, index) ==
    /\ bv_ops < MaxBVOps
    /\ bv_split.active
    /\ \E sl \in {bv_split[half]} :
       \E r \in {slice_flip(bv_data, sl, index)} :
        /\ bv_data' = r.data
        /\ bv_ref' = IF r.panic = NoPanic
                     THEN [bv_ref EXCEPT ![sl.start + index] = ~@] ELSE bv_ref
        /\ bv_last' = [op |-> "flip", target |-> half, index |-> index,
                       panic |-> r.panic, value |-> FALSE]
    /\ bv_ops' = bv_ops + 1
    /\ UNCHANGED <<bv_size, bv_split>>

BVAllIndices == BVIndices(bv_size) \cup BVOutIndices(bv_size)
BVHalves == {"left", "right"}

BVSetStep == \E i \in BVAllIndices, v \in BOOLEAN : BVSetBit(i, v)
BVFlipStep == \E i \in BVAllIndices : BVFlipBit(i)
BVGetStep == \E i \in BVAllIndices : BVGet(i)
BVFromIterStep ==
    \E n \in BVIterLengths : \E upper \in BVIterUppers(n) : BVFromIter(BVIterItems(n), upper)
BVSplitStep ==
    \E r \in BVSliceRanges(bv_size) :
    \E m \in BVSplitIndices(r[2] - r[1]) : BVSplitAtMut(r[1], r[2], m)
BVHalfSetStep ==
    \E h \in BVHalves :
    \E i \in BVHalfIndices(slice_len(bv_split[h])), v \in BOOLEAN : BVHalfSet(h, i, v)
BVHalfFlipStep ==
    \E h \in BVHalves :
    \E i \in BVHalfIndices(slice_len(bv_split[h])) : BVHalfFlip(h, i)

InitBV == BVInit /\ IVIdle /\ RHIdle /\ FPIdle /\ BTIdle
NextBV ==
    /\ \/ BVSetStep
       \/ BVFlipStep
       \/ BVGetStep
       \/ BVFromIterStep
       \/ BVSplitStep
       \/ BVHalfSetStep
       \/ BVHalfFlipStep
    /\ UNCHANGED <<iv_vars, rh_vars, fp_vars, pbt_vars, bt_vars>>
SpecBV == InitBV /\ [][NextBV]_vars

\* C6: a BitVec of length n reads back as the reference array of booleans
\* after any in-range set/flip sequence; set(i, v) reads back v, flipping
\* twice restores the words, and neither operation changes another bit.
BVRefines == \A i \in 0..(bv_size - 1) : get_bit_unchecked(bv_data, i) = bv_ref[i]
BVSetReadBack ==
    \A i \in BVIndices(bv_size), v \in BOOLEAN :
        LET d == set_bit_unchecked(bv_data, i, v)
        IN /\ get_bit_unchecked(d, i) = v
           /\ \A j \in 0..(bv_size - 1) :
                j # i => get_bit_unchecked(d, j) = get_bit_unchecked(bv_data, j)
BVFlipInvolution ==
    \A i \in BVIndices(bv_size) :
        LET d == flip_bit_unchecked(bv_data, i)
        IN /\ flip_bit_unchecked(d, i) = bv_data
           /\ get_bit_unchecked(d, i) = ~get_bit_unchecked(bv_data, i)
           /\ \A j \in 0..(bv_size - 1) :
                j # i => get_bit_unchecked(d, j) = get_bit_unchecked(bv_data, j)
C6_BitVecRefinesBoolArray == BVRefines /\ BVSetReadBack /\ BVFlipInvolution

\* a vector of more than one word with bits set on both sides of the word
\* boundary after several operations
C6_Witness ==
    /\ bv_size > 2 * WORD_SIZE
    /\ bv_ops >= 3
    /\ bv_ref[63] /\ bv_ref[64] /\ ~bv_ref[65]
    /\ get_bit_unchecked(bv_data, 63) /\ get_bit_unchecked(bv_data, 64)

\* C15: on a BitVec of length n, a checked get, set_bit or flip_bit with an
\* index i >= n fails with the message "index is {i} but length is {n}",
\* also when i lies inside the last allocated word, and no bit of the
\* backing words changes.
C15_OutOfRangeFails ==
    [][(bv_last'.target = "vec" /\ bv_last'.index >= bv_size)
        => /\ bv_last'.panic = IndexOutOfRange(bv_last'.index, bv_size)
           /\ bv_data' = bv_data
           /\ bv_ref' = bv_ref]_vars

\* a set_bit(i, true) that failed with i past the length but inside the last
\* allocated word, on a vector that was written before
C15_Witness ==
    /\ bv_last.op = "set_bit" /\ bv_last.value
    /\ bv_last.index >= bv_size
    /\ bv_last.index < WORD_SIZE * Len(bv_data)
    /\ bv_last.panic = IndexOutOfRange(bv_last.index, bv_size)
    /\ \E i \in 0..(bv_size - 1) : bv_ref[i]

\* the positions of the backing a slice reads and writes
slice_positions(sl) == sl.start..(sl.end - 1)
OtherHalf(half) == IF half = "left" THEN "right" ELSE "left"

\* C16, the halves: after an accepted split_at_mut(m) of a slice over
\* [s, e) the halves are [s, s+m) and [s+m, e), disjoint and together the
\* whole slice.
C16_HalvesPartition ==
    bv_split.active =>
        LET s == bv_split.slice.start
            e == bv_split.slice.end
            m == bv_split.index
        IN /\ slice_positions(bv_split.left) = s..(s + m - 1)
           /\ slice_positions(bv_split.right) = (s + m)..(e - 1)
           /\ slice_positions(bv_split.left) \cap slice_positions(bv_split.right) = {}
           /\ slice_positions(bv_split.left) \cup slice_positions(bv_split.right)
                = slice_positions(bv_split.slice)

\* C16: the two halves of a split mutable slice partition it, and a set or
\* flip through one half, at any point of an interleaving of such calls,
\* changes no bit that the other half reads.
C16_SplitHalvesDisjoint ==
    /\ []C16_HalvesPartition
    /\ [][bv_last'.target \in BVHalves
            => LET other == bv_split[OtherHalf(bv_last'.target)]
               IN \A j \in 0..(slice_len(other) - 1) :
                    slice_get(bv_data', other, j) = slice_get(bv_data, other, j)]_vars

\* a slice that starts inside a word and ends in the next one, split inside
\* the first word, with a bit written through each half, the right one last
C16_Witness ==
    /\ bv_split.active
    /\ bv_split.slice.start > 0
    /\ bv_split.index > 0
    /\ bv_split.right.start < WORD_SIZE /\ bv_split.right.end > WORD_SIZE
    /\ bv_last.target = "right" /\ bv_last.panic = NoPanic
    /\ \E i \in slice_positions(bv_split.left) : bv_ref[i]
    /\ \E i \in slice_positions(bv_split.right) : bv_ref[i]

----------------------------------------------------------------------------
(* int_vec/mod.rs, int_vec/dynamic.rs, int_vec/fixed.rs *)

block_width == WORD_SIZE

\* ceil(num_elements * bit_width / 64)
num_required_blocks(num_elements, bit_width) ==
    (num_elements * bit_width + block_width - 1) \div block_width

\* x << k, x >> k and (1 << k) - 1 on usize in a build without overflow
\* checks: the shift amount is taken modulo 64.  Every shift of the packed
\* vectors by 64 or more comes from a bit width of 64 or more, on which a
\* build with overflow checks panics in push before anything is stored.
wrapping_shl(x, k) == Shl(x, k % block_width)
wrapping_shr(x, k) == Shr(x, k % block_width)
wrapping_mask(k) == LowMask(k % block_width)

\* DynamicIntVec::get_unchecked_with_width
dyn_get_unchecked_with_width(data, index, width) ==
    LET index_block == (index * width) \div block_width
        index_offset == (index * width) % block_width
    IN IF index_offset + width >= block_width
       THEN LET fitting_bits == block_width - index_offset
                remaining_bits == width - fitting_bits
                lo == Shr(data[index_block + 1], index_offset)
                mask == wrapping_mask(remaining_bits)
                hi == And(data[index_block + 2], mask)
            IN Or(wrapping_shl(hi, fitting_bits), lo)
       ELSE And(Shr(data[index_block + 1], index_offset), wrapping_mask(width))

\* the outcome of a write into data: the words afterwards, or an abort
Written(data) == [aborted |-> FALSE, data |-> data]
WriteAborted(data) == [aborted |-> TRUE, data |-> data]

\* DynamicIntVec::set_unchecked_with_width: the outcomes of the call.  The
\* one-word branch indexes data with self.data[..], which panics when the
\* word is not there.  The two-word branch writes through get_unchecked_mut:
\* when a word it names is not in data the call has undefined behaviour; it
\* aborts (the precondition check of get_unchecked_mut, compiled in with
\* debug assertions, or a fault of the write) or writes past the end of the
\* vector, which leaves the words of data that exist as written so far.
dyn_set_unchecked_with_width(data, index, value, width) ==
    LET mask == wrapping_mask(width)
        val == And(value, mask)
        index_block == (index * width) \div block_width
        index_offset == (index * width) % block_width
        lower == [data EXCEPT ![index_block + 1] =
                    Or(And(@, Not(Shl(mask, index_offset))), Shl(val, index_offset))]
    IN IF index_offset + width >= block_width
       THEN LET fitting_bits == block_width - index_offset
            IN IF index_block + 2 <= Len(data)
               THEN {Written([lower EXCEPT ![index_block + 2] =
                        Or(And(@, Not(wrapping_shr(mask, fitting_bits))),
                           wrapping_shr(val, fitting_bits))])}
               ELSE {WriteAborted(data), Written(lower)}
       ELSE IF index_block + 1 <= Len(data) THEN {Written(lower)}
            ELSE {WriteAborted(data)}

\* DynamicIntVec::with_capacity: one zero word is pushed at construction
dyn_with_capacity == <<ZeroWord>>

\* a variant that drops the part of a straddling element that belongs in
\* the next word
dyn_push_drop_high(data, size, width, v) ==
    LET offset == (size * width) % block_width
        mask == LowMask(width)
        n == Len(data)
    IN IF offset = 0
       THEN [data EXCEPT ![n] = Or(@, And(v, mask))]
       ELSE IF offset + width >= block_width
       THEN Append([data EXCEPT ![n] = Or(@, Shl(And(v, mask), offset))], ZeroWord)
       ELSE [data EXCEPT ![n] = Or(@, Shl(And(v, mask), offset))]

\* DynamicIntVec::push: the words after the push (size grows by one)
dyn_push(data, size, width, v) ==
    LET offset == (size * width) % block_width
        mask == wrapping_mask(width)
        n == Len(data)
    IN IF offset = 0
       THEN [data EXCEPT ![n] = Or(@, And(v, mask))]
       ELSE IF offset + width >= block_width
       THEN LET fitting_bits == block_width - offset
                fitting_mask == LowMask(fitting_bits)
                hi == Shr(And(v, mask), fitting_bits)
            IN Append([data EXCEPT ![n] = Or(@, Shl(And(v, fitting_mask), offset))], hi)
       ELSE [data EXCEPT ![n] = Or(@, Shl(And(v, mask), offset))]

\* the largest element, as Iterator::reduce with max computes it
RECURSIVE dyn_max_from(_, _, _, _, _)
dyn_max_from(data, size, width, i, acc) ==
    IF i >= size THEN acc
    ELSE LET v == dyn_get_unchecked_with_width(data, i, width)
         IN dyn_max_from(data, size, width, i + 1, IF WordLess(acc, v) THEN v ELSE acc)

\* x - 1 for a word x > 0
Dec(x) == LET p == SetMin(x) IN (x \ {p}) \cup LowMask(p)
ilog2(x) == SetMax(x)

\* the width bit_compress chooses for the largest element
min_required_bits(max) ==
    IF WordLess(Word(1), max) THEN ilog2(Dec(max)) + 1 ELSE 1

\* the rewriting loop of bit_compress, from element i on: its outcomes
RECURSIVE dyn_repack(_, _, _, _, _)
dyn_repack(data, size, old_width, width, i) ==
    IF i >= size THEN {Written(data)}
    ELSE LET v == dyn_get_unchecked_with_width(data, i, old_width)
         IN UNION {IF o.aborted THEN {o}
                   ELSE dyn_repack(o.data, size, old_width, width, i + 1) :
                   o \in dyn_set_unchecked_with_width(data, i, v, width)}

\* DynamicIntVec::bit_compress: the outcomes, each with the new width and words
bit_compress(data, size, width) ==
    IF size = 0 THEN {[aborted |-> FALSE, width |-> width, data |-> data]}
    ELSE LET max == dyn_max_from(data, size, width, 1,
                                 dyn_get_unchecked_with_width(data, 0, width))
             new_width == min_required_bits(max)
         IN {[aborted |-> o.aborted,
              width |-> IF o.aborted THEN width ELSE new_width,
              data |-> o.data] : o \in dyn_repack(data, size, width, new_width, 0)}

is_power_of_two(n) == \E k \in 0..WORD_EXP : n = 2 ^ k

\* FixedIntVec::mask: usize::MAX >> (64 - WIDTH)
fixed_mask(width) == Shr(MaxWord, block_width - width)

\* FixedIntVec::get_unchecked
fixed_get_unchecked(data, index, width) ==
    LET index_block == (index * width) \div block_width
        index_offset == (index * width) % block_width
    IN IF ~is_power_of_two(width) /\ index_offset + width > block_width
       THEN LET fitting_bits == block_width - index_offset
                remaining_bits == width - fitting_bits
                lo == Shr(data[index_block + 1], index_offset)
                mask == LowMask(remaining_bits)
                hi == And(data[index_block + 2], mask)
            IN Or(Shl(hi, fitting_bits), lo)
       ELSE And(Shr(data[index_block + 1], index_offset), fixed_mask(width))

\* FixedIntVec::set_unchecked
fixed_set_unchecked(data, index, value, width) ==
    LET mask == fixed_mask(width)
        val == And(value, mask)
        index_block == (index * width) \div block_width
        index_offset == (index * width) % block_width
    IN IF ~is_power_of_two(width) /\ index_offset + width > block_width
       THEN LET fitting_bits == block_width - index_offset
            IN [data EXCEPT
                  ![index_block + 1] =
                      Or(And(@, Not(Shl(mask, index_offset))), Shl(val, index_offset)),
                  ![index_block + 2] =
                      Or(And(@, Not(Shr(mask, fitting_bits))), Shr(val, fitting_bits))]
       ELSE [data EXCEPT ![index_block + 1] =
                Or(And(@, Not(Shl(mask, index_offset))), Shl(val, index_offset))]

\* FixedIntVec::push
fixed_push(data, size, width, v) ==
    LET offset == (size * width) % block_width
        mask == fixed_mask(width)
        n == Len(data)
    IN IF ~is_power_of_two(width) /\ offset + width > block_width
       THEN LET fitting_bits == block_width - offset
                fitting_mask == LowMask(fitting_bits)
                hi == Shr(And(v, mask), fitting_bits)
            IN Append([data EXCEPT ![n] = Or(@, Shl(And(v, fitting_mask), offset))], hi)
       ELSE IF offset = 0
       THEN Append(data, And(v, mask))
       ELSE [data EXCEPT ![n] = Or(@, Shl(And(v, mask), offset))]

\* the widths, lengths and values the model exercises
MaxLen == 3
MaxIVOps == 1
IVWidths == {1, 9, 32, 33, 48, 63}
IVValues(w) ==
    {v \in {Word(0), Word(1), {w - 1}, LowMask(w)} : v \subseteq LowMask(w)}

IVInit ==
    /\ iv_kind \in {"dynamic", "fixed"}
    /\ iv_width \in IVWidths
    /\ iv_data = IF iv_kind = "dynamic" THEN dyn_with_capacity ELSE <<>>
    /\ iv_size = 0
    /\ iv_ref = <<>>
    /\ iv_pure = TRUE
    /\ iv_prev = <<>>
    /\ iv_last = <<"new", 0, {}>>
    /\ iv_ops = 0
    /\ iv_shrunk = FALSE

\* the value a get yields when the indexing of data panics
Panicked == {-1}

\* get_unchecked_with_width indexes data with self.data[..], which panics when
\* the word is not there: TRUE when every word the get reads exists
dyn_get_in_bounds(data, index, width) ==
    LET index_block == (index * width) \div block_width
        index_offset == (index * width) % block_width
    IN IF index_offset + width >= block_width THEN index_block + 1 < Len(data)
       ELSE index_block < Len(data)
fixed_get_in_bounds(data, index, width) ==
    LET index_block == (index * width) \div block_width
        index_offset == (index * width) % block_width
    IN IF ~is_power_of_two(width) /\ index_offset + width > block_width
       THEN index_block + 1 < Len(data)
       ELSE index_block < Len(data)

\* IntVector::get_unchecked of either vector
IVGetOf(kind, data, width, index) ==
    IF kind = "dynamic"
    THEN IF dyn_get_in_bounds(data, index, width)
         THEN dyn_get_unchecked_with_width(data, index, width) ELSE Panicked
    ELSE IF fixed_get_in_bounds(data, index, width)
         THEN fixed_get_unchecked(data, index, width) ELSE Panicked
IVGet(index) == IVGetOf(iv_kind, iv_data, iv_width, index)
IVContents == [k \in 1..iv_size |-> IVGet(k - 1)]

\* the vector holds the sequence pushed and set so far.  A run is followed up
\* to the first operation after which this fails (a panic aside, which leaves
\* the vector as it was), and further through the pushes, sets and
\* shrink_to_fits that follow a shrink_to_fit; what the vector does after
\* another failing operation is not explored.
IVIntact ==
    /\ iv_size = Len(iv_ref)
    /\ \A i \in 0..(iv_size - 1) : IVGet(i) = iv_ref[i + 1]

\* v < (1 << width)
fits(v, width) == v \subseteq LowMask(width)

\* debug_assert! is checked in a build with debug assertions only
Builds == {"debug", "release"}

\* a variant of shrink_to_fit that always keeps one word more than required
shrink_to_fit_keep_one(data, size, width) ==
    LET required_blocks == num_required_blocks(size, width) + 1
    IN IF required_blocks < Len(data) THEN SubSeq(data, 1, required_blocks) ELSE data

\* DynamicIntVec::shrink_to_fit, FixedIntVec::shrink_to_fit: Vec::truncate
shrink_to_fit(data, size, width) ==
    LET required_blocks == num_required_blocks(size, width)
    IN IF required_blocks < Len(data) THEN SubSeq(data, 1, required_blocks) ELSE data

\* the outcome of push(v): does it panic?  DynamicIntVec asserts
\* v < (1 << width) and unwraps data.last_mut(); FixedIntVec debug-asserts
\* v <= mask
push_panics(kind, data, width, v, build) ==
    IF kind = "dynamic" THEN ~fits(v, width) \/ Len(data) = 0
    ELSE ~fits(v, width) /\ build = "debug"

\* the outcome of set(index, v) for index < len: does it panic?
set_panics(kind, width, v, build) ==
    IF kind = "dynamic" THEN ~fits(v, width)
    ELSE ~fits(v, width) /\ build = "debug"

\* push(v) that panics: the vector is left as it was
IVPushPanic(v) ==
    /\ iv_last' = <<"push_panic", iv_size, v>>
    /\ iv_prev' = IVContents
    /\ UNCHANGED <<iv_kind, iv_width, iv_data, iv_size, iv_ref, iv_pure, iv_shrunk>>

\* push(v)
IVPush(v, build) ==
    /\ iv_size < MaxLen
    /\ fits(v, iv_width) \/ iv_ops < MaxIVOps
    /\ iv_ops' = IF fits(v, iv_width) THEN iv_ops ELSE iv_ops + 1
    /\ IF push_panics(iv_kind, iv_data, iv_width, v, build)
       THEN IVPushPanic(v)
       ELSE /\ iv_data' = IF iv_kind = "dynamic" THEN dyn_push(iv_data, iv_size, iv_width, v)
                          ELSE fixed_push(iv_data, iv_size, iv_width, v)
            /\ iv_size' = iv_size + 1
            /\ iv_ref' = IF fits(v, iv_width) THEN Append(iv_ref, v) ELSE iv_ref
            /\ iv_pure' = (iv_pure /\ fits(v, iv_width))
            /\ iv_prev' = IVContents
            /\ iv_last' = <<"push", iv_size, v>>
            /\ UNCHANGED <<iv_kind, iv_width, iv_shrunk>>

\* the outcomes of the write of set(index, v) in a build: with debug
\* assertions the unchecked access to a word that is not there aborts
IVSetOutcomes(index, v, build) ==
    LET outs == IF iv_kind = "dynamic"
                THEN dyn_set_unchecked_with_width(iv_data, index, v, iv_width)
                ELSE {Written(fixed_set_unchecked(iv_data, index, v, iv_width))}
    IN IF build = "debug" /\ \E o \in outs : o.aborted
       THEN {o \in outs : o.aborted} ELSE outs

\* set(index, v) for index < len; the set that follows a shrink_to_fit is
\* explored whatever the number of operations before it
IVSet(index, v, build) ==
    /\ iv_ops < MaxIVOps \/ iv_last[1] = "shrink_to_fit"
    /\ index < iv_size
    /\ IF set_panics(iv_kind, iv_width, v, build)
       THEN /\ iv_last' = <<"set_panic", index, v>>
            /\ UNCHANGED <<iv_data, iv_ref>>
       ELSE \E o \in IVSetOutcomes(index, v, build) :
              IF o.aborted
              THEN /\ iv_last' = <<"set_abort", index, v>>
                   /\ UNCHANGED <<iv_data, iv_ref>>
              ELSE /\ iv_data' = o.data
                   /\ iv_ref' = IF fits(v, iv_width) THEN [iv_ref EXCEPT ![index + 1] = v]
                                ELSE iv_ref
                   /\ iv_last' = <<"set", index, v>>
    /\ iv_pure' = FALSE
    /\ iv_prev' = IVContents
    /\ iv_ops' = iv_ops + 1
    /\ UNCHANGED <<iv_kind, iv_width, iv_size, iv_shrunk>>

\* DynamicIntVec::bit_compress
IVBitCompress ==
    /\ iv_ops < MaxIVOps
    /\ iv_kind = "dynamic"
    /\ \E r \in bit_compress(iv_data, iv_size, iv_width) :
          /\ iv_data' = r.data
          /\ iv_width' = r.width
          /\ iv_last' = <<IF r.aborted THEN "bit_compress_abort" ELSE "bit_compress", 0, {}>>
    /\ iv_pure' = FALSE
    /\ iv_prev' = IVContents
    /\ iv_ops' = iv_ops + 1
    /\ UNCHANGED <<iv_kind, iv_size, iv_ref, iv_shrunk>>

\* shrink_to_fit of either vector; the shrink_to_fit that follows a push onto
\* a shrunk vector is explored whatever the number of operations before it
IVShrinkToFit ==
    /\ iv_ops < MaxIVOps \/ (iv_shrunk /\ iv_last[1] = "push")
    /\ iv_data' = shrink_to_fit(iv_data, iv_size, iv_width)
    /\ iv_shrunk' = TRUE
    /\ iv_pure' = FALSE
    /\ iv_prev' = IVContents
    /\ iv_last' = <<"shrink_to_fit", 0, {}>>
    /\ iv_ops' = IF iv_ops < MaxIVOps THEN iv_ops + 1 ELSE iv_ops
    /\ UNCHANGED <<iv_kind, iv_width, iv_size, iv_ref>>

\* the values set writes: all zeros and all ones
IVSetValues(w) == {Word(0), LowMask(w)}
\* a value that does not fit: 2^w + 1
IVTooLarge(w) == {{0, w}}

\* the build matters to a value that does not fit and to an unchecked write
\* of a word that is not there
IVPushStep ==
    \/ \E v \in IVValues(iv_width) : IVPush(v, "debug")
    \/ \E v \in IVTooLarge(iv_width), build \in Builds : IVPush(v, build)
IVSetStep ==
    \E i \in 0..(iv_size - 1) :
        \/ \E v \in IVSetValues(iv_width), build \in Builds : IVSet(i, v, build)
        \/ \E v \in IVTooLarge(iv_width), build \in Builds : IVSet(i, v, build)

InitIV == IVInit /\ BVIdle /\ RHIdle /\ FPIdle /\ BTIdle
NextIV ==
    /\ \/ IVIntact /\ (IVPushStep \/ IVSetStep \/ IVBitCompress \/ IVShrinkToFit)
       \/ ~IVIntact /\ iv_last[1] = "shrink_to_fit" /\ (IVPushStep \/ IVSetStep)
       \/ ~IVIntact /\ iv_shrunk /\ iv_last[1] = "push" /\ IVShrinkToFit
    /\ UNCHANGED <<bv_vars, rh_vars, fp_vars, pbt_vars, bt_vars>>
SpecIV == InitIV /\ [][NextIV]_vars

\* C4: pushing v_0..v_{n-1} (each below 2^w) onto an empty DynamicIntVec or
\* FixedIntVec gives len = n and get(i) = v_i, whether or not an element
\* straddles a word boundary or ends on one.
C4_PushRoundTrip ==
    iv_pure => /\ iv_size = Len(iv_ref)
               /\ \A i \in 0..(iv_size - 1) : IVGet(i) = iv_ref[i + 1]

\* three pushes of width 33: element 1 straddles the first word boundary and
\* has bits on both sides of it
C4_Witness ==
    /\ iv_pure /\ iv_width = 33 /\ iv_size = 3
    /\ iv_ref[2] = LowMask(33)
    /\ IVGet(1) = LowMask(33)

\* the largest of a non-empty sequence of words
RECURSIVE MaxOfSeq(_)
MaxOfSeq(sq) ==
    IF Len(sq) = 1 THEN sq[1]
    ELSE LET m == MaxOfSeq(Tail(sq)) IN IF WordLess(m, sq[1]) THEN sq[1] ELSE m
\* max(1, ceil(log2(M + 1))): the number of bits of M, at least one
BitsNeeded(M) == IF M = {} THEN 1 ELSE SetMax(M) + 1

\* C5: after bit_compress on a non-empty vector with largest element M,
\* bit_width = max(1, ceil(log2(M+1))), len is unchanged and every get(i)
\* returns what it returned before the call.
C5_BitCompressPreserves ==
    (iv_last[1] = "bit_compress" /\ Len(iv_prev) > 0) =>
        /\ iv_width = BitsNeeded(MaxOfSeq(iv_prev))
        /\ iv_size = Len(iv_prev)
        /\ \A i \in 0..(iv_size - 1) : IVGet(i) = iv_prev[i + 1]

\* C10: set(i, v) with i < len and v < 2^w makes get(i) = v and leaves len and
\* every other element as they were, also when element i spans two words.
C10_SetFrame ==
    (iv_last[1] \in {"set", "set_abort"} /\ fits(iv_last[3], iv_width)) =>
        /\ iv_last[1] = "set"
        /\ IVGet(iv_last[2]) = iv_last[3]
        /\ iv_size = Len(iv_prev)
        /\ \A j \in 0..(iv_size - 1) : j # iv_last[2] => IVGet(j) = iv_prev[j + 1]

\* a set of element 1 of width 33 (bits 33..65, two words) that changes it,
\* between two non-zero neighbours
C10_Witness ==
    /\ iv_last = <<"set", 1, LowMask(33)>>
    /\ iv_width = 33 /\ iv_size = 3
    /\ iv_prev[2] = Word(0) /\ iv_prev[1] = LowMask(33) /\ iv_prev[3] = {32}
    /\ IVGet(1) = LowMask(33)

\* C13: after shrink_to_fit on a packed integer vector holding n elements of
\* width w, the number of backing words is ceil(n * w / 64): the words hold
\* all n * w bits and one word less would not.
C13_ShrinkWordCount ==
    iv_last[1] = "shrink_to_fit" =>
        /\ Len(iv_data) * WORD_SIZE >= iv_size * iv_width
        /\ (Len(iv_data) - 1) * WORD_SIZE < iv_size * iv_width

\* a DynamicIntVec of two 32-bit elements: they fill one word exactly, and the
\* second word the pushes left behind is released
C13_Witness ==
    /\ iv_last[1] = "shrink_to_fit"
    /\ iv_kind = "dynamic" /\ iv_width = 32 /\ iv_size = 2
    /\ Len(iv_data) = 1

\* C14: push(v) and set(i, v) with v >= 2^w fail abruptly on DynamicIntVec
\* and on FixedIntVec and leave len and every stored element unchanged; a
\* value that is too wide is never stored in truncated form.
C14_TooLargeValuesFail ==
    (iv_last[1] \in {"push", "set", "push_panic", "set_panic"} /\ ~fits(iv_last[3], iv_width)) =>
        /\ iv_last[1] \in {"push_panic", "set_panic"}
        /\ iv_size = Len(iv_prev)
        /\ IVContents = iv_prev

\* C17: a DynamicIntVec refines a plain sequence of integers under any
\* interleaving of push, set and bit_compress with in-range values: after
\* every push and every set len and every get(i) are those of the sequence; a
\* push after bit_compress appends at index len and changes no earlier
\* element.  (What bit_compress itself does to the elements is C5.)
C17_DynamicRefinesSequence ==
    (iv_kind = "dynamic" /\ ~iv_shrunk /\ iv_last[1] \in {"push", "set"}) =>
        /\ iv_size = Len(iv_ref)
        /\ \A i \in 0..(iv_size - 1) : IVGet(i) = iv_ref[i + 1]

\* C18: shrink_to_fit on a DynamicIntVec changes neither len nor any get(i),
\* and the vector stays usable, n = 0 and n * w a multiple of 64 included: a
\* following push(v) appends v at index n and alters no earlier element.
C18_ShrinkKeepsVectorUsable ==
    iv_kind = "dynamic" =>
        /\ iv_last[1] = "shrink_to_fit" =>
              (iv_size = Len(iv_prev) /\ IVContents = iv_prev)
        /\ (iv_shrunk /\ iv_last[1] \in {"push", "push_panic"} /\ fits(iv_last[3], iv_width)) =>
              /\ iv_last[1] = "push"
              /\ iv_size = Len(iv_prev) + 1
              /\ IVGet(iv_size - 1) = iv_last[3]
              /\ \A j \in 0..(Len(iv_prev) - 1) : IVGet(j) = iv_prev[j + 1]

----------------------------------------------------------------------------
(* rolling_hash/rabin_karp.rs, rolling_hash/cyclic_polynomial.rs           *)
(*                                                                         *)
(* A u64 of the Rabin-Karp hasher is a pair <<hi, lo>> of limbs standing   *)
(* for hi * 2^20 + lo, since its values (up to 2^43) exceed the checker's  *)
(* integers.  No operation of the hasher overflows 64 bits.                *)

LIMB == 2 ^ 20
BASE == 257
\* PRIME = 8589935681 = 2^33 + 1089
PRIME_LOW == 1089
PRIME_HIGH == 2 ^ 13
PRIME == <<PRIME_HIGH, PRIME_LOW>>

\* In the loops below, CHOOSE result \in {rest(v) : v \in {value}} : TRUE is
\* rest(value) with the value computed first, as the statements of the loop
\* body run before the next turn.

Limbs(n) == <<n \div LIMB, n % LIMB>>
LNorm(h, l) == <<h + (l \div LIMB), l % LIMB>>
LAdd(a, b) == LNorm(a[1] + b[1], a[2] + b[2])
LSub(a, b) == LNorm(a[1] - b[1], a[2] - b[2])
\* a * c for c < 2^10
LMul(a, c) == LNorm(a[1] * c, a[2] * c)
\* a % PRIME for 0 <= a < 2^43
LModPrime(a) ==
    LET q == a[1] \div PRIME_HIGH
        r == LNorm(a[1] % PRIME_HIGH, a[2] - PRIME_LOW * q)
    IN IF r[1] < 0 THEN LAdd(r, PRIME) ELSE r

\* s[from .. from + len) of a 1-based sequence holding a 0-based text
Slice(s, from, len) == [k \in 1..len |-> s[from + k]]

\* RabinKarp::new: the initial hash over s[0..window_size); the iterations
\* i..window_size of the loop, run in order as two halves
RECURSIVE rk_initial_hash(_, _, _, _)
rk_initial_hash(s, window_size, i, hash) ==
    IF i >= window_size THEN hash
    ELSE IF window_size - i = 1
    THEN LModPrime(LAdd(LMul(hash, BASE), Limbs(s[i + 1])))
    ELSE LET mid == (i + window_size) \div 2
         IN CHOOSE result \in {rk_initial_hash(s, window_size, mid, h) :
                h \in {rk_initial_hash(s, mid, i, hash)}} : TRUE

\* RabinKarp::new: rem = BASE^(window_size - 1) % PRIME; rk_rem_loop is n
\* iterations of rem = (rem * BASE) % PRIME
RECURSIVE rk_rem_loop(_, _)
rk_rem_loop(n, rem) ==
    IF n <= 0 THEN rem
    ELSE IF n = 1 THEN LModPrime(LMul(rem, BASE))
    ELSE CHOOSE result \in {rk_rem_loop(n - n \div 2, r) :
                 r \in {rk_rem_loop(n \div 2, rem)}} : TRUE
rk_rem(window_size) == rk_rem_loop(window_size - 1, Limbs(1))

\* a variant that reports the end one window early
rk_advance_early_done(s, window_size, rem, offset, hash, done) ==
    IF offset + window_size + 1 >= Len(s) \/ done
    THEN [offset |-> offset, hash |-> hash, done |-> TRUE]
    ELSE [offset |-> offset + 1, hash |-> hash, done |-> FALSE]

\* a variant that removes the outgoing byte without its weight rem
rk_advance_without_rem(s, window_size, rem, offset, hash, done) ==
    IF offset + window_size >= Len(s) \/ done
    THEN [offset |-> IF offset < Len(s) - window_size THEN offset
                     ELSE Len(s) - window_size,
          hash |-> hash, done |-> TRUE]
    ELSE LET c_out == s[offset + 1]
             c_in == s[offset + window_size + 1]
             h1 == LAdd(hash, PRIME)
             h2 == LSub(h1, LModPrime(Limbs(c_out)))
             h3 == LMul(h2, BASE)
             h4 == LAdd(h3, Limbs(c_in))
         IN [offset |-> offset + 1, hash |-> LModPrime(h4), done |-> FALSE]

\* a variant that moves the offset on at the last window
rk_advance_past_end(s, window_size, rem, offset, hash, done) ==
    IF offset + window_size >= Len(s) \/ done
    THEN [offset |-> offset + 1, hash |-> hash, done |-> TRUE]
    ELSE LET c_out == s[offset + 1]
             c_in == s[offset + window_size + 1]
             h1 == LAdd(hash, PRIME)
             h2 == LSub(h1, LModPrime(LMul(rem, c_out)))
             h3 == LMul(h2, BASE)
             h4 == LAdd(h3, Limbs(c_in))
         IN [offset |-> offset + 1, hash |-> LModPrime(h4), done |-> FALSE]

\* RabinKarp::advance: the values self.rem * c_out and self.hash take on the
\* way, in the order of the statements
rk_advance_values(s, window_size, rem, offset, hash) ==
    LET c_out == s[offset + 1]
        c_in == s[offset + window_size + 1]
        product == LMul(rem, c_out)
        h1 == LAdd(hash, PRIME)
        h2 == LSub(h1, LModPrime(product))
        h3 == LMul(h2, BASE)
        h4 == LAdd(h3, Limbs(c_in))
    IN <<product, h1, h2, h3, h4, LModPrime(h4)>>

\* RabinKarp::advance: the record of offset, hash and done after the call
rk_advance(s, window_size, rem, offset, hash, done) ==
    IF offset + window_size >= Len(s) \/ done
    THEN [offset |-> IF offset < Len(s) - window_size THEN offset
                     ELSE Len(s) - window_size,
          hash |-> hash, done |-> TRUE]
    ELSE LET c_out == s[offset + 1]
             c_in == s[offset + window_size + 1]
             h1 == LAdd(hash, PRIME)
             h2 == LSub(h1, LModPrime(LMul(rem, c_out)))
             h3 == LMul(h2, BASE)
             h4 == LAdd(h3, Limbs(c_in))
         IN [offset |-> offset + 1, hash |-> LModPrime(h4), done |-> FALSE]

\* u64::rotate_left
rotate_left(x, k) == {(p + k) % WORD_SIZE : p \in x}

\* the character tables the model draws from: with_seed shuffles the
\* identity table, so its table is a permutation of 0..255; with_table takes
\* any table, here one with entries that reach the top bits of the word
char_table(name, c) ==
    IF name = "identity" THEN Word(c)
    ELSE IF name = "reversed" THEN Word(255 - c)
    ELSE Or(Shl(Word(c), 56), Word(255 - c))

\* CyclicPolynomial::with_table: the initial hash
RECURSIVE cp_initial_hash(_, _, _, _, _)
cp_initial_hash(s, window_size, table, i, hash) ==
    IF i >= window_size THEN hash
    ELSE cp_initial_hash(s, window_size, table, i + 1,
            Xor(hash, rotate_left(char_table(table, s[i + 1]), window_size - i - 1)))

\* s.get(i).copied().unwrap_or_default()
byte_or_default(s, i) == IF i < Len(s) THEN s[i + 1] ELSE 0

\* a variant that rotates the outgoing character one position too little
cp_advance_short_rotation(s, window_size, table, offset, hash) ==
    LET outchar == byte_or_default(s, offset)
        inchar == byte_or_default(s, offset + window_size)
    IN [offset |-> offset + 1,
        hash |-> Xor(Xor(rotate_left(hash, 1),
                         rotate_left(char_table(table, outchar), window_size - 1)),
                     char_table(table, inchar)),
        done |-> FALSE]

\* CyclicPolynomial::advance
cp_advance(s, window_size, table, offset, hash) ==
    LET outchar == byte_or_default(s, offset)
        inchar == byte_or_default(s, offset + window_size)
    IN [offset |-> offset + 1,
        hash |-> Xor(Xor(rotate_left(hash, 1),
                         rotate_left(char_table(table, outchar), window_size)),
                     char_table(table, inchar)),
        done |-> FALSE]

\* the texts and windows the model exercises
MaxText == 4
Bytes == {0, 97, 255}
RECURSIVE Texts(_)
Texts(n) == IF n = 0 THEN {<<>>}
            ELSE {Append(t, b) : t \in Texts(n - 1), b \in Bytes}
AllTexts == UNION {Texts(n) : n \in 1..MaxText}

RHInit ==
    /\ rh_s \in AllTexts
    /\ rh_w \in 1..Len(rh_s)
    /\ rh_kind \in {"rabin_karp", "cyclic"}
    /\ rh_table \in IF rh_kind = "cyclic" THEN {"identity", "reversed", "wide"} ELSE {"none"}
    /\ rh_offset = 0
    /\ rh_hash = IF rh_kind = "rabin_karp"
                 THEN rk_initial_hash(rh_s, rh_w, 0, Limbs(0))
                 ELSE cp_initial_hash(rh_s, rh_w, rh_table, 0, ZeroWord)
    /\ rh_done = FALSE
    /\ rh_items = <<>>
    /\ rh_ended = FALSE
    /\ rh_fresh = TRUE

RHAdvanced ==
    IF rh_kind = "rabin_karp" THEN rk_advance(rh_s, rh_w, rk_rem(rh_w), rh_offset, rh_hash, rh_done)
    ELSE cp_advance(rh_s, rh_w, rh_table, rh_offset, rh_hash)

\* Iterator::next returning None
RHNextNone ==
    /\ IF rh_kind = "rabin_karp" THEN rh_done ELSE rh_offset + rh_w > Len(rh_s)
    /\ ~rh_ended
    /\ rh_ended' = TRUE
    /\ UNCHANGED <<rh_kind, rh_s, rh_w, rh_table, rh_offset, rh_hash, rh_done,
                   rh_items, rh_fresh>>

\* Iterator::next returning Some(hashed_bytes()) and advancing
RHNextSome ==
    /\ IF rh_kind = "rabin_karp" THEN ~rh_done ELSE rh_offset + rh_w <= Len(rh_s)
    /\ rh_items' = Append(rh_items, <<rh_offset, Slice(rh_s, rh_offset, rh_w), rh_hash>>)
    /\ rh_offset' = RHAdvanced.offset
    /\ rh_hash' = RHAdvanced.hash
    /\ rh_done' = RHAdvanced.done
    /\ UNCHANGED <<rh_kind, rh_s, rh_w, rh_table, rh_ended, rh_fresh>>

\* RollingHash::advance called directly; the offset of a CyclicPolynomial
\* grows without limit, so the model stops one past the end of the text
RHAdvance ==
    /\ rh_offset <= Len(rh_s)
    /\ ~rh_ended
    /\ rh_offset' = RHAdvanced.offset
    /\ rh_hash' = RHAdvanced.hash
    /\ rh_done' = RHAdvanced.done
    /\ rh_fresh' = FALSE
    /\ UNCHANGED <<rh_kind, rh_s, rh_w, rh_table, rh_items, rh_ended>>

\* advance applied n times to the hasher in state st
RECURSIVE RHAdvancedTimes(_, _)
RHAdvancedTimes(st, n) ==
    IF n = 0 THEN st
    ELSE RHAdvancedTimes(
             IF rh_kind = "rabin_karp"
             THEN rk_advance(rh_s, rh_w, rk_rem(rh_w), st.offset, st.hash, st.done)
             ELSE cp_advance(rh_s, rh_w, rh_table, st.offset, st.hash),
             n - 1)

\* RollingHash::advance_n
RHAdvanceN(n) ==
    /\ rh_kind = "rabin_karp" \/ rh_offset + n <= Len(rh_s) + 1
    /\ ~rh_ended
    /\ \E st \in {RHAdvancedTimes([offset |-> rh_offset, hash |-> rh_hash,
                                   done |-> rh_done], n)} :
          /\ rh_offset' = st.offset
          /\ rh_hash' = st.hash
          /\ rh_done' = st.done
    /\ rh_fresh' = FALSE
    /\ UNCHANGED <<rh_kind, rh_s, rh_w, rh_table, rh_items, rh_ended>>
RHAdvanceNStep == \E n \in {0, 2, 3} : RHAdvanceN(n)

InitRH == RHInit /\ BVIdle /\ IVIdle /\ FPIdle /\ BTIdle
NextRH ==
    (RHNextSome \/ RHNextNone \/ RHAdvance \/ RHAdvanceNStep)
    /\ UNCHANGED <<bv_vars, iv_vars, fp_vars, pbt_vars, bt_vars>>
SpecRH == InitRH /\ [][NextRH]_vars

\* the hash a hasher built on (s, w) holds after i calls of advance
RECURSIVE HashAtOffset(_, _, _, _, _)
HashAtOffset(kind, s, w, table, i) ==
    IF i = 0
    THEN IF kind = "rabin_karp" THEN rk_initial_hash(s, w, 0, Limbs(0))
         ELSE cp_initial_hash(s, w, table, 0, ZeroWord)
    ELSE LET h == HashAtOffset(kind, s, w, table, i - 1)
         IN IF kind = "rabin_karp" THEN rk_advance(s, w, rk_rem(w), i - 1, h, FALSE).hash
            ELSE cp_advance(s, w, table, i - 1, h).hash

RHIteratorAtEnd ==
    IF rh_kind = "rabin_karp" THEN rh_done ELSE rh_offset + rh_w > Len(rh_s)

\* C7: iterating a freshly built RabinKarp or CyclicPolynomial over a text t
\* with window 1 <= w <= |t| yields exactly |t| - w + 1 items and then ends;
\* item i has bytes t[i..i+w] and the hash the hasher holds at offset i.
C7_IterationYieldsEveryWindow ==
    rh_fresh =>
        /\ \A k \in 1..Len(rh_items) :
              rh_items[k] = <<k - 1, Slice(rh_s, k - 1, rh_w),
                              HashAtOffset(rh_kind, rh_s, rh_w, rh_table, k - 1)>>
        /\ Len(rh_items) <= Len(rh_s) - rh_w + 1
        /\ RHIteratorAtEnd <=> Len(rh_items) = Len(rh_s) - rh_w + 1
        /\ rh_ended => Len(rh_items) = Len(rh_s) - rh_w + 1

\* a Rabin-Karp iteration over four bytes with window 2 that has ended after
\* three items
C7_Witness ==
    /\ rh_fresh /\ rh_ended /\ rh_kind = "rabin_karp"
    /\ Len(rh_s) = 4 /\ rh_w = 2 /\ Len(rh_items) = 3
    /\ rh_items[3][2] = <<rh_s[3], rh_s[4]>>
    /\ rh_s[1] # rh_s[3]

\* the polynomial of the window t[m .. m + w): t[m] * 257^(w-1) + ... + t[m+w-1],
\* as limbs, without any reduction (below 2^43 for the windows of the model)
RECURSIVE WindowPolynomial(_, _, _)
WindowPolynomial(t, m, w) ==
    IF w = 0 THEN Limbs(0)
    ELSE LAdd(LMul(WindowPolynomial(t, m, w - 1), BASE), Limbs(t[m + w]))

\* a value of limbs lies in 0 .. 2^64 - 1
FitsU64(a) == a[1] >= 0 /\ a[1] \div LIMB < 2 ^ 24

\* C22: a RabinKarp hasher over t with window w holds, after m calls of
\* advance (0 <= m <= |t| - w), the hash
\* (sum over k < w of t[m+k] * 257^(w-1-k)) mod 8589935681, and every value
\* the next update computes on the way fits in an unsigned 64-bit word.
C22_RabinKarpHashIsPolynomial ==
    rh_kind = "rabin_karp" =>
        /\ rh_hash = LModPrime(WindowPolynomial(rh_s, rh_offset, rh_w))
        /\ rh_offset + rh_w < Len(rh_s) =>
              LET values == rk_advance_values(rh_s, rh_w, rk_rem(rh_w), rh_offset, rh_hash)
              IN /\ \A k \in 1..Len(values) : FitsU64(values[k])
                 /\ values[Len(values)]
                      = LModPrime(WindowPolynomial(rh_s, rh_offset + 1, rh_w))

\* a hasher with a window of two bytes that has advanced twice over a text
\* whose bytes differ and include 255
C22_Witness ==
    /\ rh_kind = "rabin_karp" /\ rh_w = 2 /\ rh_offset = 2 /\ Len(rh_s) = 4
    /\ rh_s[1] = 255 /\ rh_s[2] = 97 /\ rh_s[3] = 0 /\ rh_s[4] = 255
    /\ rh_hash = Limbs(255)

\* rotl(x, r): the bit at position p moves to position (p + r) mod 64
RotatedBy(x, r) == {(p + r) % WORD_SIZE : p \in x}

\* the XOR over k in [from, w) of rotl(T[b(m+k)], w-1-k), with b(j) the byte
\* t[j] for j < |t| and 0 beyond
RECURSIVE CyclicWindowTerms(_, _, _, _, _)
CyclicWindowTerms(t, w, table, m, from) ==
    IF from >= w THEN {}
    ELSE Xor(RotatedBy(char_table(table, IF m + from < Len(t) THEN t[m + from + 1] ELSE 0),
                       w - 1 - from),
             CyclicWindowTerms(t, w, table, m, from + 1))
CyclicWindowHash(t, w, table, m) == CyclicWindowTerms(t, w, table, m, 0)

\* C23: a CyclicPolynomial hasher with table T over t with window w holds,
\* after m calls of advance, the XOR over k in [0, w) of
\* rotl(T[b(m+k)], w-1-k), where b(j) = t[j] for j < |t| and 0 for j >= |t|.
C23_CyclicHashIsXorOfRotations ==
    rh_kind = "cyclic" => rh_hash = CyclicWindowHash(rh_s, rh_w, rh_table, rh_offset)

\* a hasher whose table reaches the top bits and whose window has moved
\* partly past the end of the text
C23_Witness ==
    /\ rh_kind = "cyclic" /\ rh_table = "wide"
    /\ rh_w = 3 /\ Len(rh_s) = 4 /\ rh_offset = 3
    /\ rh_s[4] = 255
    /\ rh_hash = CyclicWindowHash(rh_s, rh_w, rh_table, rh_offset)
    /\ \E p \in rh_hash : p < 2

\* C24, the state part: the window of a RabinKarp hasher lies inside the
\* text and the hash is the hash of exactly that window
C24_WindowInsideText ==
    rh_kind = "rabin_karp" =>
        /\ rh_offset + rh_w <= Len(rh_s)
        /\ rh_hash = rk_initial_hash(Slice(rh_s, rh_offset, rh_w), rh_w, 0, Limbs(0))

\* C24: for a RabinKarp hasher built with 1 <= w <= |t|, after any sequence
\* of advance, advance_n and next calls offset + w <= |t| holds and hash is
\* the hash of the window at offset; a call at the last window leaves offset
\* and hash unchanged.
C24_RabinKarpStaysInsideText ==
    /\ []C24_WindowInsideText
    /\ [][(rh_kind = "rabin_karp" /\ rh_offset + rh_w = Len(rh_s))
            => (rh_offset' = rh_offset /\ rh_hash' = rh_hash)]_vars

\* a hasher at the last window of a text of four bytes that was asked to
\* advance further: done is set, the offset stayed
C24_Witness ==
    /\ rh_kind = "rabin_karp" /\ ~rh_fresh /\ rh_done
    /\ Len(rh_s) = 4 /\ rh_w = 2 /\ rh_offset = 2
    /\ rh_s[1] # rh_s[3]
    /\ rh_items = <<>>

----------------------------------------------------------------------------
(* bit_vec/rank_select/flat_popcount/mod.rs                                *)
(*                                                                         *)
(* An entry of l1_index is a u128: a set of bit positions in 0..127.       *)

L1_BLOCK_SIZE == 4096
L2_BLOCK_SIZE == 512
L1_BLOCK_SIZE_EXP == 12
L2_BLOCK_SIZE_EXP == 9
L2_INDEX_MASK == LowMask(L1_BLOCK_SIZE_EXP)
L1_SHIFT == 84
SAMPLE_EXP == 13
Shl128(x, k) == {p + k : p \in x} \cap (0..127)
Min(a, b) == IF a < b THEN a ELSE b

\* the number of ones in raw[from .. to)
RECURSIVE popcount_words(_, _, _)
popcount_words(raw, from, to) ==
    IF from >= to THEN 0
    ELSE count_ones(raw[from + 1]) + popcount_words(raw, from + 1, to)

\* the popcount of the i-th element of raw.chunks(8)
chunk_ones(raw, i) == popcount_words(raw, 8 * i, Min(8 * i + 8, Len(raw)))

\* a variant of the loop that stores the ones of each L2 block by itself
\* rather than the running count inside the L1 block
RECURSIVE build_indices_from_per_block(_, _, _, _, _, _)
build_indices_from_per_block(raw, i, num_ones, ones_in_l1, current_l1, l1_index) ==
    IF 8 * i >= Len(raw)
    THEN [i |-> i, current_l1 |-> current_l1, l1_index |-> l1_index]
    ELSE LET offset == i % 8
             ones == chunk_ones(raw, i)
         IN IF offset = 7
            THEN build_indices_from_per_block(raw, i + 1, num_ones + ones_in_l1 + ones, 0,
                                    Shl128(Word(num_ones + ones_in_l1 + ones), L1_SHIFT),
                                    Append(l1_index, current_l1))
            ELSE build_indices_from_per_block(raw, i + 1, num_ones, ones_in_l1 + ones,
                                    Or(current_l1,
                                       Shl128(And(Word(ones), L2_INDEX_MASK),
                                              12 * (6 - offset))),
                                    l1_index)

\* the for loop of build_indices, from chunk i on
RECURSIVE build_indices_from(_, _, _, _, _, _)
build_indices_from(raw, i, num_ones, ones_in_l1, current_l1, l1_index) ==
    IF 8 * i >= Len(raw)
    THEN [i |-> i, current_l1 |-> current_l1, l1_index |-> l1_index]
    ELSE LET offset == i % 8
             ones == chunk_ones(raw, i)
         IN IF offset = 7
            THEN build_indices_from(raw, i + 1, num_ones + ones_in_l1 + ones, 0,
                                    Shl128(Word(num_ones + ones_in_l1 + ones), L1_SHIFT),
                                    Append(l1_index, current_l1))
            ELSE build_indices_from(raw, i + 1, num_ones, ones_in_l1 + ones,
                                    Or(current_l1,
                                       Shl128(And(Word(ones_in_l1 + ones), L2_INDEX_MASK),
                                              12 * (6 - offset))),
                                    l1_index)

\* the while loop of build_indices: unused L2 entries are filled with ones
RECURSIVE pad_l1(_, _)
pad_l1(current_l1, i) ==
    IF i % 8 = 7 THEN current_l1
    ELSE pad_l1(Or(current_l1, Shl128(L2_INDEX_MASK, 12 * (6 - (i % 8)))), i + 1)

\* FlatPopcount::build_indices: the l1_index it leaves
build_indices(raw) ==
    LET r == build_indices_from(raw, 0, 0, 0, {}, <<>>)
    IN Append(r.l1_index, pad_l1(r.current_l1, r.i))

\* one iteration of the loop of sample_ones, on bit i; st is
\* [count, data, size], count starting at -1
sample_bit(raw, width, i, st) ==
    IF get_bit_unchecked(raw, i)
    THEN LET count == st.count + 1
         IN IF count % (2 ^ SAMPLE_EXP) = 0
            THEN [count |-> count,
                  data |-> dyn_push(st.data, st.size, width, Word(ShrNat(i, SAMPLE_EXP))),
                  size |-> st.size + 1]
            ELSE [st EXCEPT !.count = count]
    ELSE st

\* the loop of sample_ones over the bits lo .. hi - 1 in order (the range is
\* halved to keep the evaluation shallow)
RECURSIVE sample_bits(_, _, _, _, _)
sample_bits(raw, width, lo, hi, st) ==
    IF hi <= lo THEN st
    ELSE IF hi = lo + 1 THEN sample_bit(raw, width, lo, st)
    ELSE LET mid == (lo + hi) \div 2
             first == sample_bits(raw, width, lo, mid, st)
         IN IF first.size >= 0 THEN sample_bits(raw, width, mid, hi, first) ELSE first

\* FlatPopcount::sample_ones: sampled_ones and number_of_ones
sample_ones(raw, n, width) ==
    LET st == sample_bits(raw, width, 0, n,
                          [count |-> -1, data |-> dyn_with_capacity, size |-> 0])
    IN [sampled_ones |-> [data |-> st.data, size |-> st.size, width |-> width],
        number_of_ones |-> st.count + 1]

\* n.ilog2() for a natural n >= 1
ilog2_nat(n) == SetMax(Word(n))

\* FlatPopcount::new
FlatPopcountNew(raw, n) ==
    IF n = 0
    THEN [l1_index |-> <<>>,
          sampled_ones |-> [data |-> dyn_with_capacity, size |-> 0, width |-> 1],
          number_of_ones |-> 0]
    ELSE LET so == sample_ones(raw, n, ilog2_nat(n) + 1)
         IN [l1_index |-> build_indices(raw),
             sampled_ones |-> so.sampled_ones,
             number_of_ones |-> so.number_of_ones]

\* FlatPopcount::rough_rank_1 on the entry read from l1_index
rough_rank_1(entry, l2_index) ==
    IF l2_index = 0 THEN Nat_of(Shr(entry, L1_SHIFT))
    ELSE LET offset_blocks == 7 - l2_index
             offset == 12 * offset_blocks
             l1c == Shr(entry, L1_SHIFT)
             l2c == And(Shr(entry, offset), L2_INDEX_MASK)
         IN Nat_of(l1c) + Nat_of(l2c)

\* FlatPopcount::rank, given the entry l1_index.get_unchecked(index >> 12)
rank(entry, raw, index, TARGET) ==
    LET l1_index == ShrNat(index, L1_BLOCK_SIZE_EXP)
        l2_index == ShrNat(index, L2_BLOCK_SIZE_EXP) % 8
        internal_index == LowNat(index, 9)
        full_remaining_words == ShrNat(internal_index, 6)
        rest_bits == internal_index - full_remaining_words * (2 ^ 6)
        word_start == l1_index * (2 ^ 6) + l2_index * (2 ^ 3)
        ones0 == rough_rank_1(entry, l2_index)
                 + popcount_words(raw, word_start, word_start + full_remaining_words)
        ones == IF rest_bits > 0
                THEN LET word == raw[word_start + full_remaining_words + 1]
                         mask == Shl(LowMask(rest_bits), WORD_SIZE - rest_bits)
                     IN ones0 + count_ones(And(word, mask))
                ELSE ones0
    IN IF TARGET THEN ones ELSE index - ones

\* FlatPopcount::l1: the upper usize of the entry, shifted right by 20
l1(l1_index_vec, l1_index) == Nat_of(Shr(Shr(l1_index_vec[l1_index + 1], WORD_SIZE), 20))

\* FlatPopcount::find_l1
RECURSIVE find_l1(_, _, _)
find_l1(l1_index_vec, l1_index, rnk) ==
    IF l1_index >= Len(l1_index_vec) THEN Len(l1_index_vec) - 1
    ELSE IF l1(l1_index_vec, l1_index) > rnk THEN l1_index - 1
    ELSE find_l1(l1_index_vec, l1_index + 1, rnk)

\* LinearSearch::find_l2: <<l2_index, ones before that L2 block>>
RECURSIVE find_l2_from(_, _, _, _)
find_l2_from(entry, rnk, i, prev_l2) ==
    IF i >= 7 THEN <<7, prev_l2>>
    ELSE LET l2_entry == Nat_of(And(Shr(entry, 72 - 12 * i), L2_INDEX_MASK))
         IN IF rnk < l2_entry THEN <<i, prev_l2>>
            ELSE find_l2_from(entry, rnk, i + 1, l2_entry)
find_l2(entry, rnk) == find_l2_from(entry, rnk, 0, 0)

\* BinarySearch::find_l2, the macro l2!: the L2 entry number l2_index
l2(entry, l2_index) == Nat_of(And(Shr(entry, 72 - 12 * l2_index), L2_INDEX_MASK))

\* a variant of the binary search whose first comparison is not strict
binary_find_l2_leq(entry, rnk) ==
    IF rnk <= l2(entry, 3)
    THEN IF rnk < l2(entry, 1)
         THEN IF rnk < l2(entry, 0) THEN <<0, 0>> ELSE <<1, l2(entry, 0)>>
         ELSE IF rnk < l2(entry, 2) THEN <<2, l2(entry, 1)>> ELSE <<3, l2(entry, 2)>>
    ELSE IF rnk < l2(entry, 5)
         THEN IF rnk < l2(entry, 4) THEN <<4, l2(entry, 3)>> ELSE <<5, l2(entry, 4)>>
         ELSE IF rnk < l2(entry, 6) THEN <<6, l2(entry, 5)>> ELSE <<7, l2(entry, 6)>>

\* BinarySearch::find_l2: <<l2_index, ones before that L2 block>>
binary_find_l2(entry, rnk) ==
    IF rnk < l2(entry, 3)
    THEN IF rnk < l2(entry, 1)
         THEN IF rnk < l2(entry, 0) THEN <<0, 0>> ELSE <<1, l2(entry, 0)>>
         ELSE IF rnk < l2(entry, 2) THEN <<2, l2(entry, 1)>> ELSE <<3, l2(entry, 2)>>
    ELSE IF rnk < l2(entry, 5)
         THEN IF rnk < l2(entry, 4) THEN <<4, l2(entry, 3)>> ELSE <<5, l2(entry, 4)>>
         ELSE IF rnk < l2(entry, 6) THEN <<6, l2(entry, 5)>> ELSE <<7, l2(entry, 6)>>

\* select: the walk over the words of the L2 block
RECURSIVE walk_words(_, _, _, _)
walk_words(raw, current_index, index_in_l2, rnk) ==
    LET num_ones == count_ones(raw[current_index + 1])
    IN IF num_ones <= rnk
       THEN walk_words(raw, current_index + 1, index_in_l2 + 1, rnk - num_ones)
       ELSE [current_index |-> current_index, index_in_l2 |-> index_in_l2, rank |-> rnk]

\* a variant of the scan that numbers the bits of the word from the least
\* significant end
RECURSIVE scan_word_lsb_first(_, _, _)
scan_word_lsb_first(word, index_in_word, rnk) ==
    LET bit == index_in_word \in word
    IN IF rnk = 0 /\ bit THEN index_in_word
       ELSE scan_word_lsb_first(word, index_in_word + 1, IF bit THEN rnk - 1 ELSE rnk)

\* select: the scan for the one inside the word
RECURSIVE scan_word(_, _, _)
scan_word(word, index_in_word, rnk) ==
    LET bit == word_get_bit_unchecked(word, index_in_word)
    IN IF rnk = 0 /\ bit THEN index_in_word
       ELSE scan_word(word, index_in_word + 1, IF bit THEN rnk - 1 ELSE rnk)

\* FlatPopcount::select (BitSelectSupport<true>)
select(raw, l1_index_vec, sampled_ones, number_of_ones, rnk) ==
    IF rnk >= number_of_ones THEN None
    ELSE LET start == Nat_of(dyn_get_unchecked_with_width(
                          sampled_ones.data, ShrNat(rnk, SAMPLE_EXP), sampled_ones.width))
             l1_index == find_l1(l1_index_vec, start, rnk)
             rank1 == rnk - l1(l1_index_vec, l1_index)
             block == l1_index_vec[l1_index + 1]
             found == find_l2(block, rank1)
             l2_index == found[1]
             rank2 == rank1 - found[2]
             w == walk_words(raw, l1_index * (2 ^ 6) + l2_index * (2 ^ 3), 0, rank2)
             index_in_word == scan_word(raw[w.current_index + 1], 0, w.rank)
         IN Some(l1_index * (2 ^ L1_BLOCK_SIZE_EXP) + l2_index * (2 ^ L2_BLOCK_SIZE_EXP)
                 + w.index_in_l2 * (2 ^ 6) + index_in_word)

\* the value standing for a call that does not return
Crashed == -1

\* the result standing for a call of select that does not return
Aborted == <<"Aborted">>

(* rank_select/flat_popcount/mod.rs: the second select implementation of   *)
(* the repository.  It shares the index layout of the first; its guard and *)
(* its search for the L1 block differ.                                     *)

\* select: the while loop that looks for the L1 block, followed up to its
\* first read past the end of l1_index.  The body increments l1_index and
\* reads l1(l1_index) with get_unchecked before the condition compares
\* l1_index with the length: when the loop is still running at the last
\* entry it reads the entry l1_index.len().  in_bounds tells whether every
\* read stayed inside l1_index; l1_index is the value after `l1_index -= 1`
\* when the loop ends at the check that follows its last read.  After a read
\* past the end (undefined behaviour) the call is aborted (the precondition
\* check of get_unchecked in a build with debug assertions, a fault without
\* them), or the loop ends there, or it runs on over what the memory holds
\* (get_unchecked lets the compiler assume the index is in bounds and drop
\* the comparison with the length) and ends at a larger l1_index
RECURSIVE rs_find_l1(_, _, _)
rs_find_l1(l1_index_vec, l1_index, rnk) ==
    IF l1_index >= Len(l1_index_vec)
    THEN [in_bounds |-> FALSE, l1_index |-> l1_index - 1]
    ELSE IF l1(l1_index_vec, l1_index) <= rnk
    THEN rs_find_l1(l1_index_vec, l1_index + 1, rnk)
    ELSE [in_bounds |-> TRUE, l1_index |-> l1_index - 1]

\* select: the walk over the words of the L2 block; raw.get_unchecked is
\* reported as out of bounds when the walk leaves raw
RECURSIVE rs_walk_words(_, _, _, _)
rs_walk_words(raw, current_index, index_in_l2, rnk) ==
    IF current_index >= Len(raw)
    THEN [in_bounds |-> FALSE, current_index |-> current_index,
          index_in_l2 |-> index_in_l2, rank |-> rnk]
    ELSE LET num_ones == count_ones(raw[current_index + 1])
         IN IF num_ones <= rnk
            THEN rs_walk_words(raw, current_index + 1, index_in_l2 + 1, rnk - num_ones)
            ELSE [in_bounds |-> TRUE, current_index |-> current_index,
                  index_in_l2 |-> index_in_l2, rank |-> rnk]

\* the results Some(p) with p >= from
SomeFrom(from) == {r \in {"Some"} \X Nat : r[2] >= from}

\* FlatPopcount::select (SelectSupport<true>): the set of results the call
\* can have.  The call does not return when sampled_ones.get panics.  A read
\* of l1_index or of raw past the end is undefined behaviour: the call is
\* aborted, or goes on with whatever the memory holds and returns a position
\* made of the indices it has reached, which only grow: at or after the L1
\* block the L1 loop read past the end at, at or after the word the walk left
\* raw at.
rs_select(raw, l1_index_vec, sampled_ones, number_of_ones, rnk) ==
    IF rnk > number_of_ones THEN {None}
    ELSE IF ShrNat(rnk, SAMPLE_EXP) >= sampled_ones.size THEN {Aborted}
    ELSE LET start == Nat_of(dyn_get_unchecked_with_width(
                          sampled_ones.data, ShrNat(rnk, SAMPLE_EXP), sampled_ones.width))
             found_l1 == rs_find_l1(l1_index_vec, start, rnk)
             l1_index == found_l1.l1_index
             rank1 == rnk - l1(l1_index_vec, l1_index)
             block == l1_index_vec[l1_index + 1]
             found == find_l2(block, rank1)
             l2_index == found[1]
             rank2 == rank1 - found[2]
             w == rs_walk_words(raw, l1_index * (2 ^ 6) + l2_index * (2 ^ 3), 0, rank2)
             base == l1_index * (2 ^ L1_BLOCK_SIZE_EXP) + l2_index * (2 ^ L2_BLOCK_SIZE_EXP)
                     + w.index_in_l2 * (2 ^ 6)
         IN IF ~found_l1.in_bounds
            THEN {Aborted} \cup SomeFrom(l1_index * (2 ^ L1_BLOCK_SIZE_EXP))
            ELSE IF w.in_bounds
            THEN {Some(base + scan_word(raw[w.current_index + 1], 0, w.rank))}
            ELSE {Aborted} \cup SomeFrom(base)

\* what the model keeps of the results SomeFrom(from): one value that stands
\* for Some(p) with a p >= from that the memory behind the vectors decides
AnySomeFrom(from) == <<"SomeFrom", from>>

\* FlatPopcount::select (SelectSupport<true>): the outcomes of the call, each
\* with its result and with more, which tells whether the run goes on reading
\* after its first read past the end of l1_index or raw.  A call that stays
\* in bounds has one outcome.  A read past the end is undefined behaviour:
\* the call is aborted at that read (the precondition check of get_unchecked
\* in a build with debug assertions, a fault without them), or it reads on
\* over the memory behind the vector and is aborted later, or it reads on and
\* returns Some(p) for a p that this memory decides.
rs_select_outcomes(raw, l1_index_vec, sampled_ones, number_of_ones, rnk) ==
    IF rnk > number_of_ones THEN {[result |-> None, more |-> FALSE]}
    ELSE IF ShrNat(rnk, SAMPLE_EXP) >= sampled_ones.size
    THEN {[result |-> Aborted, more |-> FALSE]}
    ELSE LET start == Nat_of(dyn_get_unchecked_with_width(
                          sampled_ones.data, ShrNat(rnk, SAMPLE_EXP), sampled_ones.width))
             found_l1 == rs_find_l1(l1_index_vec, start, rnk)
             l1_index == found_l1.l1_index
             rank1 == rnk - l1(l1_index_vec, l1_index)
             block == l1_index_vec[l1_index + 1]
             found == find_l2(block, rank1)
             l2_index == found[1]
             rank2 == rank1 - found[2]
             w == rs_walk_words(raw, l1_index * (2 ^ 6) + l2_index * (2 ^ 3), 0, rank2)
             base == l1_index * (2 ^ L1_BLOCK_SIZE_EXP) + l2_index * (2 ^ L2_BLOCK_SIZE_EXP)
                     + w.index_in_l2 * (2 ^ 6)
             undefined(from) == {[result |-> Aborted, more |-> FALSE],
                                 [result |-> Aborted, more |-> TRUE],
                                 [result |-> AnySomeFrom(from), more |-> TRUE]}
         IN IF ~found_l1.in_bounds
            THEN undefined(l1_index * (2 ^ L1_BLOCK_SIZE_EXP))
            ELSE IF w.in_bounds
            THEN {[result |-> Some(base + scan_word(raw[w.current_index + 1], 0, w.rank)),
                   more |-> FALSE]}
            ELSE undefined(base)

\* what a call of select reads: the indices into sampled_ones, into l1_index
\* and into the backing words, and the bit numbers inside the last word, up
\* to and with its first read past the end of l1_index or raw; more tells
\* whether the call goes on reading after that read, where what it reads
\* depends on the memory behind the vector
NoReads == [sampled_ones |-> {}, l1_index |-> {}, raw |-> {}, bits |-> {}, more |-> FALSE]

\* find_l1: the indices of l1_index whose entry the loop reads
RECURSIVE find_l1_reads(_, _, _)
find_l1_reads(l1_index_vec, l1_index, rnk) ==
    IF l1_index >= Len(l1_index_vec) THEN {}
    ELSE {l1_index} \cup (IF l1(l1_index_vec, l1_index) > rnk THEN {}
                          ELSE find_l1_reads(l1_index_vec, l1_index + 1, rnk))

\* rank_select's select: the indices of l1_index the while loop reads.  The
\* body reads l1(l1_index) right after the increment, before the condition
\* compares l1_index with the length
RECURSIVE rs_find_l1_reads(_, _, _)
rs_find_l1_reads(l1_index_vec, l1_index, rnk) ==
    {l1_index} \cup (IF l1_index < Len(l1_index_vec) /\ l1(l1_index_vec, l1_index) <= rnk
                     THEN rs_find_l1_reads(l1_index_vec, l1_index + 1, rnk)
                     ELSE {})

\* select from the L1 block on: the reads of the L1 entry, of the words of the
\* L2 block up to the word the walk stops at or leaves raw at, and of the
\* bits of the word the walk stops at
block_reads(raw, l1_index_vec, l1_index, rnk) ==
    LET rank1 == rnk - l1(l1_index_vec, l1_index)
        found == find_l2(l1_index_vec[l1_index + 1], rank1)
        start == l1_index * (2 ^ 6) + found[1] * (2 ^ 3)
        w == rs_walk_words(raw, start, 0, rank1 - found[2])
    IN [l1_index |-> {l1_index},
        raw |-> start..w.current_index,
        bits |-> IF w.in_bounds THEN 0..scan_word(raw[w.current_index + 1], 0, w.rank)
                 ELSE {}]

\* the reads of bit_vec::rank_select::FlatPopcount::select
select_reads(raw, l1_index_vec, sampled_ones, number_of_ones, rnk) ==
    IF rnk >= number_of_ones THEN NoReads
    ELSE IF ShrNat(rnk, SAMPLE_EXP) >= sampled_ones.size
    THEN [NoReads EXCEPT !.sampled_ones = {ShrNat(rnk, SAMPLE_EXP)}]
    ELSE LET start == Nat_of(dyn_get_unchecked_with_width(
                          sampled_ones.data, ShrNat(rnk, SAMPLE_EXP), sampled_ones.width))
             b == block_reads(raw, l1_index_vec, find_l1(l1_index_vec, start, rnk), rnk)
         IN [sampled_ones |-> {ShrNat(rnk, SAMPLE_EXP)},
             l1_index |-> find_l1_reads(l1_index_vec, start, rnk) \cup b.l1_index,
             raw |-> b.raw,
             bits |-> b.bits,
             more |-> FALSE]

\* the reads of the call of rank_select::FlatPopcount::select with the
\* outcome o of rs_select_outcomes.  Every run makes the reads up to its
\* first read past the end: the L1 entries of the while loop, and, when the
\* loop stays inside l1_index, the L1 entry, the words of the L2 block and
\* the bits of the word the walk stops at.  What a run reads after a read
\* past the end is not listed: more tells that it reads on.
rs_select_reads(raw, l1_index_vec, sampled_ones, number_of_ones, rnk, o) ==
    IF rnk > number_of_ones THEN NoReads
    ELSE IF ShrNat(rnk, SAMPLE_EXP) >= sampled_ones.size
    THEN [NoReads EXCEPT !.sampled_ones = {ShrNat(rnk, SAMPLE_EXP)}]
    ELSE LET start == Nat_of(dyn_get_unchecked_with_width(
                          sampled_ones.data, ShrNat(rnk, SAMPLE_EXP), sampled_ones.width))
             found_l1 == rs_find_l1(l1_index_vec, start, rnk)
             b == IF found_l1.in_bounds
                  THEN block_reads(raw, l1_index_vec, found_l1.l1_index, rnk)
                  ELSE NoReads
         IN [sampled_ones |-> {ShrNat(rnk, SAMPLE_EXP)},
             l1_index |-> rs_find_l1_reads(l1_index_vec, start, rnk) \cup b.l1_index,
             raw |-> b.raw,
             bits |-> b.bits,
             more |-> o.more]

\* the bit vectors the model builds an index over: a length and a pattern
MaxL1 == 2
FPSizes ==
    {0, 1, 63, 64, 65, 511, 512, 513}
        \cup {L1_BLOCK_SIZE * k + d : k \in 1..MaxL1, d \in {-1, 0, 1}}
FPPatterns == {"zeros", "ones", "alt", "ends", "l1tail", "steps"}
PatternBit(pattern, i, n) ==
    CASE pattern = "zeros" -> FALSE
      [] pattern = "alt" -> (i \div 2) % 2 = 0
      [] pattern = "ends" -> i = 0 \/ i = n - 1
      [] pattern = "l1tail" -> i % L1_BLOCK_SIZE = L1_BLOCK_SIZE - 1
      [] pattern = "steps" -> i % (2 * L2_BLOCK_SIZE) \in {0, 70}
      [] OTHER -> TRUE
\* "ones" is BitVec::one(n), whose last word is all ones beyond bit n too;
\* every other pattern is BitVec::new(n) after set_bit(i, true) on its bits
PatternWords(pattern, n) ==
    IF pattern = "ones" THEN BitVecOne(n)
    ELSE [k \in 1..NumWords(n) |->
            {PRIM_SIZE - j : j \in {j \in 0..(WORD_SIZE - 1) :
                /\ WORD_SIZE * (k - 1) + j < n
                /\ PatternBit(pattern, WORD_SIZE * (k - 1) + j, n)}}]

FPInit ==
    /\ fp_len \in FPSizes
    /\ \E pattern \in FPPatterns : fp_backing = PatternWords(pattern, fp_len)
    /\ LET fp == FlatPopcountNew(fp_backing, fp_len)
       IN /\ fp_l1_index = fp.l1_index
          /\ fp_sampled_ones = fp.sampled_ones
          /\ fp_number_of_ones = fp.number_of_ones
    /\ fp_result = <<"new">>

\* the indices and ranks the model queries
FPRankIndices == {i \in FPSizes \cup {2, 100, 1000, fp_len - 1, fp_len} : 0 <= i /\ i <= fp_len}
FPSelectRanks ==
    {k \in {0, 1, 2, 63, 64, 511, 512, 2047, 2048, 4095, 4096, 8191, 8192,
            fp_number_of_ones - 2, fp_number_of_ones - 1} :
        0 <= k /\ k < fp_number_of_ones}
\* ranks at and after the number of ones
FPExceedingRanks == {fp_number_of_ones, fp_number_of_ones + 1, 100000}

\* what l1_index.get_unchecked(k) can yield: the entry, or, past the end of
\* the vector (undefined behaviour), any bits at all
UndefinedEntries == {{}, {L1_SHIFT}, L2_INDEX_MASK}
L1EntryReads(k) ==
    IF k < Len(fp_l1_index) THEN {fp_l1_index[k + 1]} ELSE UndefinedEntries
\* rank::<TARGET>(index) for index <= len
FPRank(index, TARGET) ==
    /\ \/ \E entry \in L1EntryReads(ShrNat(index, L1_BLOCK_SIZE_EXP)) :
            fp_result' = <<"rank", TARGET, index, rank(entry, fp_backing, index, TARGET)>>
       \/ /\ ShrNat(index, L1_BLOCK_SIZE_EXP) >= Len(fp_l1_index)
          /\ fp_result' = <<"rank", TARGET, index, Crashed>>
    /\ UNCHANGED <<fp_backing, fp_len, fp_l1_index, fp_sampled_ones, fp_number_of_ones>>

\* bit_vec::rank_select::FlatPopcount::select(rnk)
FPSelect(rnk) ==
    /\ fp_result' = <<"select", rnk,
                      select(fp_backing, fp_l1_index, fp_sampled_ones, fp_number_of_ones, rnk),
                      select_reads(fp_backing, fp_l1_index, fp_sampled_ones,
                                   fp_number_of_ones, rnk)>>
    /\ UNCHANGED <<fp_backing, fp_len, fp_l1_index, fp_sampled_ones, fp_number_of_ones>>

\* rank_select::FlatPopcount::select(rnk): one step for each outcome of the
\* call.  The result is None, Aborted, Some(p), or AnySomeFrom(from) for a
\* call that returns a position the memory behind the vectors decides
FPSelectRS(rnk) ==
    /\ \E o \in rs_select_outcomes(fp_backing, fp_l1_index, fp_sampled_ones,
                                   fp_number_of_ones, rnk) :
          /\ (IF o.result[1] = "SomeFrom" THEN Some(o.result[2]) ELSE o.result)
                 \in rs_select(fp_backing, fp_l1_index, fp_sampled_ones,
                               fp_number_of_ones, rnk)
          /\ fp_result' = <<"rs_select", rnk, o.result,
                            rs_select_reads(fp_backing, fp_l1_index, fp_sampled_ones,
                                            fp_number_of_ones, rnk, o)>>
    /\ UNCHANGED <<fp_backing, fp_len, fp_l1_index, fp_sampled_ones, fp_number_of_ones>>

\* the seven L2 entries of an L1 entry, in the order of their L2 blocks
L2Deltas(entry) == [j \in 1..7 |-> l2(entry, j - 1)]
\* the ranks find_l2 is asked for on an entry: around each of its L2 entries
FPFindRanks(entry) ==
    {r \in {0, L1_BLOCK_SIZE - 1}
            \cup UNION {{L2Deltas(entry)[j] - 1, L2Deltas(entry)[j], L2Deltas(entry)[j] + 1} :
                         j \in 1..7} :
        0 <= r /\ r < L1_BLOCK_SIZE}

\* LinearSearch::find_l2 and BinarySearch::find_l2 on the entry number k of
\* l1_index
FPFindL2(k, rnk) ==
    /\ fp_result' = <<"find_l2", k, rnk, find_l2(fp_l1_index[k + 1], rnk),
                      binary_find_l2(fp_l1_index[k + 1], rnk)>>
    /\ UNCHANGED <<fp_backing, fp_len, fp_l1_index, fp_sampled_ones, fp_number_of_ones>>

FPFindL2Step ==
    \E k \in 0..(Len(fp_l1_index) - 1) : \E r \in FPFindRanks(fp_l1_index[k + 1]) : FPFindL2(k, r)
FPRankStep == \E i \in FPRankIndices, t \in BOOLEAN : FPRank(i, t)
FPSelectStep == \E k \in FPSelectRanks \cup FPExceedingRanks : FPSelect(k)
FPSelectRSStep == \E k \in FPSelectRanks \cup FPExceedingRanks : FPSelectRS(k)

InitFP == FPInit /\ BVIdle /\ IVIdle /\ RHIdle /\ BTIdle
NextFP ==
    (FPRankStep \/ FPSelectStep \/ FPSelectRSStep \/ FPFindL2Step)
    /\ UNCHANGED <<bv_vars, iv_vars, rh_vars, pbt_vars, bt_vars>>
SpecFP == InitFP /\ [][NextFP]_vars

\* the number of 1-bits at positions [0, i) as get_bit reads them
OnesBefore(i) == Cardinality({j \in 0..(i - 1) : get_bit_unchecked(fp_backing, j)})

\* C2: for every bit vector of length n and every i in [0, n],
\* rank::<true>(i) is the number of 1-bits in [0, i) as read by get_bit and
\* rank::<false>(i) is i minus that number; rank1(n) = num_ones().
C2_RankCountsOnes ==
    fp_result[1] = "rank" =>
        LET i == fp_result[3]
            ones == OnesBefore(i)
        IN /\ fp_result[4] = IF fp_result[2] THEN ones ELSE i - ones
           /\ (i = fp_len /\ fp_result[2]) => fp_result[4] = fp_number_of_ones

\* C3: for every k < num_ones (k = 0 included), select(k) = Some(p) with
\* p < n, bit p set, rank1(p) = k and rank1(p + 1) = k + 1.
C3_SelectFindsOneOfRank ==
    (fp_result[1] = "select" /\ fp_result[2] < fp_number_of_ones) =>
        /\ fp_result[3][1] = "Some"
        /\ LET k == fp_result[2]
               pos == fp_result[3][2]
           IN /\ pos < fp_len
              /\ get_bit_unchecked(fp_backing, pos)
              /\ OnesBefore(pos) = k
              /\ OnesBefore(pos + 1) = k + 1
              /\ rank(fp_l1_index[ShrNat(pos, L1_BLOCK_SIZE_EXP) + 1], fp_backing, pos, TRUE) = k
              /\ rank(fp_l1_index[ShrNat(pos + 1, L1_BLOCK_SIZE_EXP) + 1], fp_backing,
                      pos + 1, TRUE) = k + 1

\* select(4096) on the alternating pattern of 8193 bits: the one of rank 4096
\* is the first bit of the third L1 block
C3_Witness ==
    /\ fp_len = 2 * L1_BLOCK_SIZE + 1
    /\ fp_number_of_ones = L1_BLOCK_SIZE + 1
    /\ fp_result[1] = "select"
    /\ fp_result[2] = L1_BLOCK_SIZE
    /\ fp_result[3] = Some(2 * L1_BLOCK_SIZE)

\* C11: select(k) returns None for every k >= number_of_ones, k =
\* number_of_ones and a bit vector without ones included, in both select
\* implementations (bit_vec::rank_select and rank_select).
C11_SelectBeyondOnesIsNone ==
    (fp_result[1] \in {"select", "rs_select"} /\ fp_result[2] >= fp_number_of_ones) =>
        fp_result[3] = None

\* C12: on every L1 entry built by construction (seven non-decreasing 12-bit
\* L2 entries, equal neighbours allowed) and every rank r < 4096, the linear
\* and the binary strategy return the same pair <<s, d_s>>: s is the number of
\* L2 entries <= r, d_s is the s-th L2 entry, and 0 when s = 0.
C12_StrategiesAgree ==
    fp_result[1] = "find_l2" =>
        LET d == L2Deltas(fp_l1_index[fp_result[2] + 1])
            r == fp_result[3]
            s == Cardinality({j \in 1..7 : d[j] <= r})
        IN /\ \A j \in 1..6 : d[j] <= d[j + 1]
           /\ fp_result[4] = fp_result[5]
           /\ fp_result[4] = <<s, IF s = 0 THEN 0 ELSE d[s]>>

\* an L1 entry whose L2 entries have equal neighbours inside the real part:
\* 2, 2, 4, 4, 6, 6, 8; rank 4 lies in the fifth L2 block
C12_Witness ==
    /\ fp_result[1] = "find_l2"
    /\ L2Deltas(fp_l1_index[fp_result[2] + 1]) = <<2, 2, 4, 4, 6, 6, 8>>
    /\ fp_result[3] = 4
    /\ fp_result[5] = <<4, 4>>

----------------------------------------------------------------------------
(* rank_select/block_tree/pointer: the pointer block tree                  *)
(*                                                                         *)
(* The arena of blocks is a sequence; a BlockId is the 0-based position of *)
(* a block in it.  The pointer to the bytes of a hashed window is the      *)
(* 0-based position of the window's first byte in the input text.          *)

\* Block::internal; generate_level passes the block's index on its level
Block_internal(start, end, index) ==
    [start |-> start, end |-> end, next |-> None, block_type |-> "Internal",
     children |-> <<>>, incident_pointers |-> 0, source |-> None, offset |-> None,
     index |-> index]

is_back_block(b) == b.block_type = "Back"
is_internal(b) == b.block_type = "Internal"
is_adjacent(b, next) == b.end = next.start
block_len(b) == b.end - b.start

RECURSIVE Reverse(_)
Reverse(s) == IF s = <<>> THEN <<>> ELSE Append(Reverse(Tail(s)), Head(s))

\* (a as f64 / b as f64).ceil() as usize
CeilDiv(a, b) == (a + b - 1) \div b

\* calculate_level_block_sizes: the loop that multiplies the block size
RECURSIVE level_sizes_loop(_, _, _, _, _)
level_sizes_loop(block_size, input_length, arity, sizes, counts) ==
    IF block_size < input_length
    THEN level_sizes_loop(block_size * arity, input_length, arity,
                          Append(sizes, block_size),
                          Append(counts, CeilDiv(input_length, block_size)))
    ELSE [level_block_sizes |-> Reverse(Append(sizes, block_size)),
          level_block_count |-> Reverse(Append(counts, 1))]

calculate_level_block_sizes(input_length, arity, leaf_length) ==
    level_sizes_loop(leaf_length, input_length, arity, <<>>, <<>>)

\* generate_level: the loop over i in (0..prev_len).step_by(block_size)
RECURSIVE generate_children(_, _, _, _, _)
generate_children(st, prev_block, i, block_size, n) ==
    LET prev == st.blocks[prev_block + 1]
    IN IF i >= block_len(prev) \/ prev.start + i >= n THEN st
       ELSE LET block == Len(st.blocks)
                fresh == [Block_internal(prev.start + i, prev.start + i + block_size,
                                         st.current_block_idx)
                          EXCEPT !.next = Some(block + 1)]
                blocks1 == Append(st.blocks, fresh)
                blocks2 == [blocks1 EXCEPT ![prev_block + 1].children = Append(@, block)]
            IN generate_children([blocks |-> blocks2,
                                  current_level |-> Append(st.current_level, block),
                                  current_block_idx |-> st.current_block_idx + 1,
                                  last |-> block],
                                 prev_block, i + block_size, block_size, n)

\* generate_level: the loop over the blocks of the previous level
RECURSIVE generate_blocks(_, _, _, _, _)
generate_blocks(st, prev_level, p, block_size, n) ==
    IF p > Len(prev_level) THEN st
    ELSE IF is_back_block(st.blocks[prev_level[p] + 1])
    THEN generate_blocks(st, prev_level, p + 1, block_size, n)
    ELSE generate_blocks(generate_children(st, prev_level[p], 0, block_size, n),
                         prev_level, p + 1, block_size, n)

\* generate_level: None when every level exists, else the arena and levels
\* with the new level (the first block of a level starts inside the text, so
\* at least one block is allocated and `last` names an allocated block)
generate_level(blocks, levels, level_block_sizes, n) ==
    LET level_depth == Len(levels)
    IN IF level_depth >= Len(level_block_sizes) THEN None
       ELSE LET block_size == level_block_sizes[level_depth + 1]
                st == generate_blocks([blocks |-> blocks, current_level |-> <<>>,
                                       current_block_idx |-> 0, last |-> Len(blocks)],
                                      levels[level_depth], 1, block_size, n)
            IN Some([blocks |-> [st.blocks EXCEPT ![st.last + 1].next = None],
                     levels |-> Append(levels, st.current_level)])

\* RabinKarp::new(&input[base..], window_size): no hasher is returned
\* (valid = FALSE) when the slice is shorter than the window, where slicing
\* s[0..window_size] panics, and for a window of size 0, where
\* debug_assert!(window_size >= 1) panics and, without debug assertions, the
\* loop over 0..window_size - 1 wraps around to usize::MAX turns
RabinKarp_new(input, base, window_size) ==
    LET s == SubSeq(input, base + 1, Len(input))
    IN IF Len(s) < window_size \/ window_size < 1
       THEN [valid |-> FALSE, s |-> s, base |-> base, window_size |-> window_size,
             offset |-> 0, hash |-> Limbs(0), rem |-> Limbs(1), done |-> FALSE]
       ELSE [valid |-> TRUE, s |-> s, base |-> base, window_size |-> window_size,
             offset |-> 0, hash |-> rk_initial_hash(s, window_size, 0, Limbs(0)),
             rem |-> rk_rem(window_size), done |-> FALSE]

\* RollingHash::advance on the hasher record
advance(rk) ==
    LET a == rk_advance(rk.s, rk.window_size, rk.rem, rk.offset, rk.hash, rk.done)
    IN [rk EXCEPT !.offset = a.offset, !.hash = a.hash, !.done = a.done]

\* RollingHash::advance_n: n calls of advance
RECURSIVE advance_n(_, _)
advance_n(rk, n) ==
    IF n = 0 THEN rk
    ELSE IF n = 1 THEN advance(rk)
    ELSE CHOOSE result \in {advance_n(r, n - n \div 2) :
                 r \in {advance_n(rk, n \div 2)}} : TRUE

\* RollingHash::hashed_bytes: the hash and the pointer to the window
hashed_bytes(rk) == [hash |-> rk.hash, ptr |-> rk.base + rk.offset]

\* HashedByteMap: a set of HashedBytes values keyed by themselves; two keys
\* are equal when their hashes are (PartialEq for HashedBytes)
map_get(map, hashed) == {e \in map : e.hash = hashed.hash}
\* map.entry(hashed).or_insert(hashed)
or_insert(map, hashed) == IF map_get(map, hashed) = {} THEN map \cup {hashed} ELSE map
\* map.remove(&hashed)
map_remove(map, hashed) == map \ map_get(map, hashed)

\* scan_block_pairs: the first loop, which hashes every pair of adjacent
\* blocks; st holds the hasher rk and the map
RECURSIVE hash_block_pairs(_, _, _, _, _, _)
hash_block_pairs(blocks, level, input, block_size, i, st) ==
    IF ~st.rk.valid \/ i >= Len(level) - 1 THEN st
    ELSE LET current_block == blocks[level[i + 1] + 1]
             next_block == blocks[level[i + 2] + 1]
         IN IF ~is_adjacent(current_block, next_block)
            THEN hash_block_pairs(blocks, level, input, block_size, i + 1,
                     [st EXCEPT !.rk = RabinKarp_new(input, next_block.start,
                                                     2 * block_size)])
            ELSE hash_block_pairs(blocks, level, input, block_size, i + 1,
                     [rk |-> advance_n(st.rk, block_size),
                      map |-> or_insert(st.map, hashed_bytes(st.rk))])

\* pair_marks.set(i, pair_marks.get(i) + 1) on the FixedIntVec::<2>
PAIR_MARK_WIDTH == 2
increment_mark(pair_marks, i) ==
    fixed_set_unchecked(pair_marks, i,
        Word(Nat_of(fixed_get_unchecked(pair_marks, i, PAIR_MARK_WIDTH)) + 1),
        PAIR_MARK_WIDTH)

\* scan_block_pairs: the windows hashed inside one block of the second loop;
\* st holds the hasher rk, the map and pair_marks; the iterations
\* k..num_hashes, run in order as two halves
RECURSIVE mark_windows(_, _, _, _)
mark_windows(st, block_index, num_hashes, k) ==
    IF k >= num_hashes THEN st
    ELSE IF num_hashes - k = 1
    THEN LET hashed == hashed_bytes(st.rk)
             found == map_get(st.map, hashed)
             leftmost == \E pair_hash \in found : pair_hash.ptr = hashed.ptr
         IN [rk |-> advance(st.rk),
             map |-> IF leftmost THEN map_remove(st.map, hashed) ELSE st.map,
             pair_marks |->
                 IF leftmost
                 THEN increment_mark(increment_mark(st.pair_marks, block_index),
                                     block_index + 1)
                 ELSE st.pair_marks]
    ELSE LET mid == (k + num_hashes) \div 2
         IN CHOOSE result \in {mark_windows(next, block_index, num_hashes, mid) :
                next \in {mark_windows(st, block_index, mid, k)}} : TRUE

\* scan_block_pairs: the second loop, over the pairs of blocks
RECURSIVE mark_block_pairs(_, _, _, _, _, _)
mark_block_pairs(blocks, level, input, block_size, block_index, st) ==
    IF ~st.rk.valid \/ block_index >= Len(level) - 1 THEN st
    ELSE LET current_block == blocks[level[block_index + 1] + 1]
             next_block == blocks[level[block_index + 2] + 1]
             num_hashes ==
                 IF block_index + 2 < Len(level)
                    /\ ~is_adjacent(next_block, blocks[level[block_index + 3] + 1])
                 THEN 1
                 ELSE block_len(current_block)
         IN IF ~is_adjacent(current_block, next_block)
            THEN mark_block_pairs(blocks, level, input, block_size, block_index + 1,
                     [st EXCEPT !.rk = RabinKarp_new(input, next_block.start,
                                                     2 * block_size)])
            ELSE mark_block_pairs(blocks, level, input, block_size, block_index + 1,
                     mark_windows(st, block_index, num_hashes, 0))

\* (0..num_blocks).for_each(|_| pair_marks.push(0))
RECURSIVE push_zeros(_, _, _)
push_zeros(data, size, num_blocks) ==
    IF size >= num_blocks THEN data
    ELSE push_zeros(fixed_push(data, size, PAIR_MARK_WIDTH, ZeroWord), size + 1, num_blocks)

\* FromIterator<bool> for BitVec on an iterator of known length: BitVec::new
\* and one set per element
RECURSIVE collect_bits(_, _, _)
collect_bits(data, bits, i) ==
    IF i >= Len(bits) THEN data
    ELSE collect_bits(set_bit_unchecked(data, i, bits[i + 1]), bits, i + 1)
BitVec_from_iter(bits) ==
    [data |-> collect_bits(BitVecNew(Len(bits)), bits, 0), size |-> Len(bits)]

\* scan_block_pairs on the newest level: panicked when a hasher could not be
\* opened, else the final pair_marks and the returned bit vector
scan_block_pairs(blocks, level, input, block_size) ==
    LET num_blocks == Len(level)
        pair_size == 2 * block_size
        first == hash_block_pairs(blocks, level, input, block_size, 0,
                     [rk |-> RabinKarp_new(input, 0, pair_size), map |-> {}])
        second == mark_block_pairs(blocks, level, input, block_size, 0,
                      [rk |-> RabinKarp_new(input, 0, pair_size), map |-> first.map,
                       pair_marks |-> push_zeros(<<>>, 0, num_blocks)])
        marks == [i \in 1..num_blocks |->
                     Nat_of(fixed_get_unchecked(second.pair_marks, i - 1, PAIR_MARK_WIDTH))]
    IN IF ~first.rk.valid
       THEN [panicked |-> TRUE, pair_marks |-> <<>>,
             is_internal |-> BitVec_from_iter(<<>>)]
       ELSE IF ~second.rk.valid
       THEN [panicked |-> TRUE, pair_marks |-> <<>>,
             is_internal |-> BitVec_from_iter(<<>>)]
       ELSE [panicked |-> FALSE, pair_marks |-> marks,
             is_internal |->
                 BitVec_from_iter([i \in 1..num_blocks |->
                     marks[i] = 2 \/ i - 1 = 0 \/ (i - 1 = num_blocks - 1 /\ marks[i] = 1)])]

\* HashedByteMultiMap<(HashedBytes, usize)>: the entries in insertion order,
\* each with the hash of its key; get_vec yields the values of the equal
\* keys in that order and remove drops them all
multimap_insert(entries, hashed, index) ==
    Append(entries, [hash |-> hashed.hash, ptr |-> hashed.ptr, index |-> index])
get_vec(entries, hashed) == SelectSeq(entries, LAMBDA e : e.hash = hashed.hash)
multimap_remove(entries, hashed) == SelectSeq(entries, LAMBDA e : e.hash # hashed.hash)

\* scan_blocks: the first loop, which hashes every block but the last; st
\* holds the entries and whether a hasher could not be opened
RECURSIVE hash_blocks(_, _, _, _, _, _)
hash_blocks(blocks, level, input, block_size, i, st) ==
    IF st.panicked \/ i >= Len(level) - 1 THEN st
    ELSE LET rk == RabinKarp_new(input, blocks[level[i + 1] + 1].start, block_size)
         IN hash_blocks(blocks, level, input, block_size, i + 1,
                IF rk.valid
                THEN [st EXCEPT !.block_hashes =
                          multimap_insert(@, hashed_bytes(rk), i)]
                ELSE [st EXCEPT !.panicked = TRUE])

\* PointerBlockTree::replace
replace(blocks, block_id, source, offset) ==
    [blocks EXCEPT ![block_id + 1].source = Some(source),
                   ![block_id + 1].offset = Some(offset),
                   ![block_id + 1].block_type = "Back"]

\* scan_blocks: the loop over the blocks whose hash equals the window's
RECURSIVE apply_results(_, _, _, _, _, _, _, _)
apply_results(blocks, level, is_internal_bits, results, r, current_block_id, current_ptr, offset) ==
    IF r > Len(results) THEN blocks
    ELSE LET index == results[r].index
             found_ptr == results[r].ptr
             block_id == level[index + 1]
             byte_offset == found_ptr - current_ptr
             blocks1 ==
                 IF ~get_bit_unchecked(is_internal_bits.data, index)
                 THEN IF byte_offset > 0
                      THEN replace(blocks, block_id, current_block_id, offset)
                      ELSE blocks
                 ELSE IF blocks[block_id + 1].source = None
                      THEN [blocks EXCEPT ![block_id + 1].source = Some(block_id),
                                          ![block_id + 1].offset = Some(offset)]
                      ELSE blocks
         IN apply_results(blocks1, level, is_internal_bits, results, r + 1,
                          current_block_id, current_ptr, offset)

\* scan_blocks: the windows starting inside one block; st holds the arena,
\* the hasher rk and the entries block_hashes; the iterations
\* offset..num_hashes, run in order as two halves
RECURSIVE scan_windows(_, _, _, _, _, _)
scan_windows(st, level, is_internal_bits, current_block_id, num_hashes, offset) ==
    IF offset >= num_hashes THEN st
    ELSE IF num_hashes - offset = 1
    THEN LET hashed == hashed_bytes(st.rk)
             results == get_vec(st.block_hashes, hashed)
         IN [blocks |-> apply_results(st.blocks, level, is_internal_bits, results, 1,
                                      current_block_id, hashed.ptr, offset),
             rk |-> advance(st.rk),
             block_hashes |-> multimap_remove(st.block_hashes, hashed)]
    ELSE LET mid == (offset + num_hashes) \div 2
         IN CHOOSE result \in {scan_windows(next, level, is_internal_bits,
                                             current_block_id, num_hashes, mid) :
                next \in {scan_windows(st, level, is_internal_bits,
                                       current_block_id, mid, offset)}} : TRUE

\* a.saturating_sub(b)
saturating_sub(a, b) == IF a > b THEN a - b ELSE 0

\* scan_blocks: the second loop, over the blocks of the level
RECURSIVE scan_level(_, _, _, _, _, _)
scan_level(st, level, input, block_size, is_internal_bits, block_index) ==
    IF ~st.rk.valid \/ block_index >= Len(level) THEN st
    ELSE LET current_block_id == level[block_index + 1]
             current_block == st.blocks[current_block_id + 1]
             has_next == block_index + 1 < Len(level)
             next_block == st.blocks[level[block_index + 2] + 1]
             next_adjacent == ~(has_next /\ ~is_adjacent(current_block, next_block))
             num_hashes ==
                 IF next_adjacent
                 THEN block_len(current_block)
                      - saturating_sub(current_block.start + block_len(current_block),
                                       Len(input))
                 ELSE 1
             scanned == scan_windows(st, level, is_internal_bits, current_block_id,
                                     num_hashes, 0)
         IN scan_level(IF next_adjacent THEN scanned
                       ELSE [scanned EXCEPT !.rk =
                                RabinKarp_new(input, next_block.start, block_size)],
                       level, input, block_size, is_internal_bits, block_index + 1)

\* scan_blocks on the newest level: panicked when a hasher could not be
\* opened, else the arena with the back pointers set
scan_blocks(blocks, level, input, block_size, is_internal_bits) ==
    LET hashes == hash_blocks(blocks, level, input, block_size, 0,
                              [block_hashes |-> <<>>, panicked |-> FALSE])
        scanned == scan_level([blocks |-> blocks,
                               rk |-> RabinKarp_new(input, 0, block_size),
                               block_hashes |-> hashes.block_hashes],
                              level, input, block_size, is_internal_bits, 0)
    IN IF hashes.panicked
       THEN [panicked |-> TRUE, blocks |-> blocks]
       ELSE IF ~scanned.rk.valid
       THEN [panicked |-> TRUE, blocks |-> blocks]
       ELSE [panicked |-> FALSE, blocks |-> scanned.blocks]

\* process_level: "done" when there is no level left to generate, "panicked"
\* when a scan could not open a hasher, else "ok" with the new arena, levels
\* and the bit vector scan_block_pairs returned
scan_new_level(blocks, levels, level, input, block_size, pairs) ==
    IF pairs.panicked
    THEN [outcome |-> "panicked", blocks |-> blocks, levels |-> levels,
          pair_marks |-> <<>>, is_internal |-> BitVec_from_iter(<<>>)]
    ELSE LET scanned == scan_blocks(blocks, level, input, block_size, pairs.is_internal)
         IN IF scanned.panicked
            THEN [outcome |-> "panicked", blocks |-> blocks, levels |-> levels,
                  pair_marks |-> <<>>, is_internal |-> BitVec_from_iter(<<>>)]
            ELSE [outcome |-> "ok", blocks |-> scanned.blocks, levels |-> levels,
                  pair_marks |-> pairs.pair_marks, is_internal |-> pairs.is_internal]
process_new_level(blocks, levels, input, level, block_size) ==
    scan_new_level(blocks, levels, level, input, block_size,
                   scan_block_pairs(blocks, level, input, block_size))
process_level(blocks, levels, input, level_block_sizes) ==
    LET generated == generate_level(blocks, levels, level_block_sizes, Len(input))
    IN IF generated = None
       THEN [outcome |-> "done", blocks |-> blocks, levels |-> levels,
             pair_marks |-> <<>>, is_internal |-> BitVec_from_iter(<<>>)]
       ELSE LET g == generated[2]
                level_depth == Len(g.levels) - 1
            IN process_new_level(g.blocks, g.levels, input, g.levels[level_depth + 1],
                                 level_block_sizes[level_depth + 1])

\* Block::get: the byte, or Crashed when an index or an unwrap panics
RECURSIVE Block_get(_, _, _, _)
Block_get(blocks, input, block_id, i) ==
    LET self == blocks[block_id + 1]
    IN IF is_internal(self)
       THEN IF self.children = <<>>
            THEN IF self.start + i < Len(input) THEN input[self.start + i + 1]
                 ELSE Crashed
            ELSE LET child_len == block_len(blocks[self.children[1] + 1])
                     child_idx == i \div child_len
                     new_i == i % child_len
                 IN IF child_idx < Len(self.children)
                    THEN Block_get(blocks, input, self.children[child_idx + 1], new_i)
                    ELSE Crashed
       ELSE LET offset == self.offset[2]
                source == self.source[2]
            IN IF offset + i < block_len(self)
               THEN Block_get(blocks, input, source, offset + i)
               ELSE IF blocks[source + 1].next = None THEN Crashed
                    ELSE Block_get(blocks, input, blocks[source + 1].next[2],
                                   offset + i - block_len(self))

----------------------------------------------------------------------------
(* rank_select/block_tree: the compact block tree                          *)

\* the value standing for a call that never returns
Hangs == -2

\* AlphabetMapping::generate: the bytes that exist (0 always does) are
\* numbered in increasing order
AlphabetMapping_generate(input) ==
    LET exists == {0} \cup {input[k] : k \in 1..Len(input)}
        counter(character) == Cardinality({d \in exists : d < character})
    IN [from_ascii |-> [c \in 0..255 |-> IF c \in exists THEN counter(c) ELSE 0],
        to_ascii |-> [k \in 0..255 |->
                         IF k < Cardinality(exists)
                         THEN CHOOSE c \in exists : counter(c) = k
                         ELSE 0]]

\* BlockTree::top_level_index: the first level that has a back block
RECURSIVE first_level_with_back_block(_, _, _)
first_level_with_back_block(blocks, levels, level_depth) ==
    IF level_depth < Len(levels)
       /\ \A k \in 1..Len(levels[level_depth + 1]) :
              is_internal(blocks[levels[level_depth + 1][k] + 1])
    THEN first_level_with_back_block(blocks, levels, level_depth + 1)
    ELSE level_depth
top_level_index(blocks, levels) ==
    Min(first_level_with_back_block(blocks, levels, 0), Len(levels) - 1)

\* collect::<DynamicIntVec>(): the vector whose k-th element is the k-th
\* value of the iterator
DynamicIntVec_from_iter(values) == values
\* IntVector::get, which panics past the end
int_vec_get(v, index) == IF index < Len(v) THEN v[index + 1] ELSE Crashed

RECURSIVE Flatten(_)
Flatten(ss) == IF ss = <<>> THEN <<>> ELSE Head(ss) \o Flatten(Tail(ss))

\* FlatPopcount::new(bits.collect::<BitVec>())
FlatPopcount_with(bv, fp) ==
    [backing |-> bv.data, len |-> bv.size, l1_index |-> fp.l1_index,
     sampled_ones |-> fp.sampled_ones, number_of_ones |-> fp.number_of_ones]
FlatPopcount_from(bv) == FlatPopcount_with(bv, FlatPopcountNew(bv.data, bv.size))
FlatPopcount_of(bits) == FlatPopcount_from(BitVec_from_iter(bits))

\* rank::<TARGET>(index) on a FlatPopcount of at least one bit
fp_rank(fp, index, TARGET) ==
    rank(fp.l1_index[ShrNat(index, L1_BLOCK_SIZE_EXP) + 1], fp.backing, index, TARGET)
\* select(rnk) on a FlatPopcount
fp_select(fp, rnk) ==
    select(fp.backing, fp.l1_index, fp.sampled_ones, fp.number_of_ones, rnk)

\* process_pbt_level: panicked when a block of the last level ends past the
\* input (pbt.input[block.start..block.end]), else the arrays of the level
level_arrays(blocks, level, is_last, input, mapping, is_internal_fp) ==
    LET back_blocks == SelectSeq(level, is_back_block)
    IN [panicked |-> is_last /\ \E k \in 1..Len(level) : level[k].end > Len(input),
        leaf_string |->
            IF is_last /\ \A k \in 1..Len(level) : level[k].end <= Len(input)
            THEN DynamicIntVec_from_iter(Flatten(
                     [k \in 1..Len(level) |->
                         [j \in 1..block_len(level[k]) |->
                             mapping.from_ascii[input[level[k].start + j]]]]))
            ELSE <<>>,
        is_internal |-> is_internal_fp,
        back_pointers |-> DynamicIntVec_from_iter(
            [k \in 1..Len(back_blocks) |->
                fp_rank(is_internal_fp, blocks[back_blocks[k].source[2] + 1].index, FALSE)]),
        offsets |-> DynamicIntVec_from_iter(
            [k \in 1..Len(back_blocks) |-> back_blocks[k].offset[2]])]
level_of_blocks(blocks, level, is_last, input, mapping) ==
    level_arrays(blocks, level, is_last, input, mapping,
                 FlatPopcount_of([k \in 1..Len(level) |-> is_internal(level[k])]))
process_pbt_level(blocks, levels, input, mapping, level_index) ==
    level_of_blocks(blocks,
                    [k \in 1..Len(levels[level_index + 1]) |->
                        blocks[levels[level_index + 1][k] + 1]],
                    level_index = Len(levels) - 1, input, mapping)

\* the number of times character c occurs in input[0..k)
CountBefore(input, c, k) == Cardinality({j \in 1..Min(k, Len(input)) : input[j] = c})

\* v < 2^e for the numbers of the model, which are below 2^31
BelowPow2(v, e) == e >= 31 \/ v < 2 ^ e

\* DynamicIntVec::push on a vector of any width: does assert!(v < (1 << width))
\* fail?  For width >= 64 the shift overflows: it panics in a build with
\* overflow checks ("debug") and takes the shift amount modulo 64 otherwise
push_assert_fails(v, width, build) ==
    IF width >= block_width
    THEN build = "debug" \/ ~BelowPow2(v, width % block_width)
    ELSE ~BelowPow2(v, width)

\* the pushes of values[k..] onto a DynamicIntVec [width, size, data], none of
\* which fails its assert
RECURSIVE dyn_push_all(_, _, _)
dyn_push_all(vec, values, k) ==
    IF k > Len(values) THEN vec
    ELSE dyn_push_all([vec EXCEPT !.data = dyn_push(vec.data, vec.size, vec.width,
                                                    Word(values[k])),
                                  !.size = vec.size + 1],
                      values, k + 1)

\* calculate_top_level_ranks: the vector of a character is allocated with
\* DynamicIntVec::with_capacity(count, top_level_block_count), whose first
\* parameter is the bit width: the width is the number of occurrences of the
\* character.  Each of the level_block_count.last() iterations pushes, for
\* each character of the input, its occurrences before the block the
\* iteration has reached.  panicked: one of the pushes fails; ranks: the
\* vector of each character after the pushes, with its width, its length and
\* its backing words (for a width of 64 or more those of a build without
\* overflow checks, which do not hold the values pushed).
calculate_top_level_ranks(input, level_block_sizes, level_block_count, build) ==
    LET chars == {input[k] : k \in 1..Len(input)}
        char_counts == [c \in chars |-> CountBefore(input, c, Len(input))]
        pushed == [c \in chars |->
                      [j \in 1..level_block_count[Len(level_block_count)] |->
                          CountBefore(input, c, (j - 1) * level_block_sizes[1])]]
        panicked == \E c \in chars : \E j \in 1..Len(pushed[c]) :
                        push_assert_fails(pushed[c][j], char_counts[c], build)
    IN [panicked |-> panicked,
        ranks |-> IF panicked THEN <<>>
                  ELSE [c \in chars |->
                           dyn_push_all([width |-> char_counts[c], size |-> 0,
                                         data |-> dyn_with_capacity],
                                        pushed[c], 1)]]

\* BlockTree::construct: the arrays of one level are pushed to the tree's
push_level(bt, lv, is_last) ==
    [bt EXCEPT !.panicked = lv.panicked,
               !.leaf_string = IF is_last THEN lv.leaf_string ELSE @,
               !.is_internal = Append(@, lv.is_internal),
               !.back_pointers = Append(@, lv.back_pointers),
               !.offsets = Append(@, lv.offsets)]
RECURSIVE process_pbt_levels(_, _, _, _, _, _)
process_pbt_levels(bt, blocks, levels, input, mapping, level_index) ==
    IF bt.panicked \/ level_index >= Len(levels) THEN bt
    ELSE process_pbt_levels(
             push_level(bt, process_pbt_level(blocks, levels, input, mapping, level_index),
                        level_index = Len(levels) - 1),
             blocks, levels, input, mapping, level_index + 1)

\* BlockTree::construct(pbt, true), as From<PointerBlockTree> calls it: a
\* panic of calculate_top_level_ranks ends it before any level is processed
construct(blocks, levels, input, arity, level_block_sizes, level_block_count, build) ==
    LET mapping == AlphabetMapping_generate(input)
        top == top_level_index(blocks, levels)
        sizes == SubSeq(level_block_sizes, top + 1, Len(level_block_sizes))
        counts == SubSeq(level_block_count, top + 1, Len(level_block_count))
        top_ranks == calculate_top_level_ranks(input, sizes, counts, build)
    IN process_pbt_levels(
           [panicked |-> top_ranks.panicked, arity |-> arity, mapping |-> mapping,
            level_block_sizes |-> sizes, level_block_count |-> counts,
            is_internal |-> <<>>, back_pointers |-> <<>>, offsets |-> <<>>,
            leaf_string |-> <<>>,
            top_level_block_ranks |-> top_ranks.ranks],
           blocks, levels, input, mapping, top)

\* BlockTree::access: the loop over the levels and the read of the leaf
\* string.  i -= block_idx * next_level_block_size below zero panics in a
\* build with overflow checks ("debug") and wraps otherwise ("release"); a
\* wrapped i is kept as the negative number it is congruent to, which as a
\* usize exceeds every length.  visited holds the (level, i) pairs a back
\* block has led to: reaching one again means the loop never ends.
RECURSIVE access_loop(_, _, _, _, _, _, _)
access_loop(bt, build, current_level, next_level_block_size, block_idx, i, visited) ==
    IF current_level >= Len(bt.level_block_sizes) - 1
    THEN LET leaf_size == next_level_block_size
             index == leaf_size * block_idx + i
             unmapped_char == IF index < 0 THEN Crashed
                              ELSE int_vec_get(bt.leaf_string, index)
         IN IF unmapped_char = Crashed THEN Crashed
            ELSE bt.mapping.to_ascii[unmapped_char]
    ELSE LET next_size == bt.level_block_sizes[current_level + 2]
             fp == bt.is_internal[current_level + 1]
             idx == i \div next_size
         IN IF i < 0 \/ idx >= fp.len THEN Crashed
            ELSE IF get_bit_unchecked(fp.backing, idx)
            THEN LET internal_rank == fp_rank(fp, idx, TRUE)
                     children_start_index == bt.arity * internal_rank
                     child_index == i \div next_size
                     child == children_start_index + child_index
                     new_i == i - child * next_size
                 IN IF new_i < 0 /\ build = "debug" THEN Crashed
                    ELSE access_loop(bt, build, current_level + 1, next_size, child,
                                     new_i, visited)
            ELSE LET back_block_rank == fp_rank(fp, idx, FALSE)
                     source == int_vec_get(bt.back_pointers[current_level + 1],
                                           back_block_rank)
                     offset == int_vec_get(bt.offsets[current_level + 1], back_block_rank)
                     found == fp_select(fp, source)
                 IN IF source = Crashed THEN Crashed
                    ELSE IF found = None THEN Crashed
                    ELSE IF <<current_level, offset>> \in visited THEN Hangs
                    ELSE access_loop(bt, build, current_level, next_size, found[2],
                                     offset, visited \cup {<<current_level, offset>>})

access(bt, build, i) == access_loop(bt, build, 0, bt.level_block_sizes[1], 0, i, {})

\* the inputs the model builds trees from: short texts over {0, 1} with few
\* ones, texts of four five-byte words, two of which have the same
\* Rabin-Karp hash, texts of six two-byte blocks, and two long texts
MaxPBTLen == 8
MaxPBTOnes == 2
PBTShortTexts ==
    {t \in UNION {[1..n -> {0, 1}] : n \in 0..MaxPBTLen} :
        Cardinality({k \in DOMAIN t : t[k] = 1}) <= MaxPBTOnes}
PBTWords == {<<0, 8, 0, 4, 0>>, <<2, 0, 12, 0, 63>>, <<1, 1, 1, 1, 1>>}
PBTWordTexts == {a \o b \o c \o d : a \in PBTWords, b \in PBTWords, c \in PBTWords, d \in PBTWords}
\* texts of six two-byte blocks, which fill two levels of arity 3 exactly
PBTPairs == {<<0, 1>>, <<1, 1>>}
PBTPairTexts ==
    {a \o b \o c \o d \o e \o f :
        a \in PBTPairs, b \in PBTPairs, c \in PBTPairs,
        d \in PBTPairs, e \in PBTPairs, f \in PBTPairs}
\* texts in which a byte occurs 64 times or more: 64 equal bytes, whose
\* pushes fail in every build, and 127 equal bytes before another one, whose
\* pushes fail with overflow checks only
PBTLongTexts == {[k \in 1..block_width |-> 0]}
PBTLongerTexts == {[k \in 1..(2 * block_width) |-> IF k = 2 * block_width THEN 1 ELSE 0]}
PBTInputs ==
    {<<t, arity, leaf_length>> : t \in PBTShortTexts, arity \in {2, 3}, leaf_length \in {1, 2}}
    \cup {<<t, 4, 5>> : t \in PBTWordTexts}
    \cup {<<t, 3, 2>> : t \in PBTPairTexts}
    \cup {<<t, 2, 32>> : t \in PBTLongTexts}
    \cup {<<t, 2, 64>> : t \in PBTLongerTexts}

\* PointerBlockTree::new up to the loop over the levels
BTInit ==
    /\ \E inp \in PBTInputs :
          /\ pbt_input = inp[1]
          /\ pbt_arity = inp[2]
          /\ pbt_leaf_length = inp[3]
    /\ LET lv == calculate_level_block_sizes(Len(pbt_input), pbt_arity, pbt_leaf_length)
       IN /\ pbt_level_block_sizes = lv.level_block_sizes
          /\ pbt_level_block_count = lv.level_block_count
          /\ pbt_blocks = <<Block_internal(0, lv.level_block_sizes[1], None)>>
    /\ pbt_levels = <<<<0>>>>
    /\ pbt_is_internal = <<>>
    /\ pbt_status = "constructing"
    /\ pbt_result = <<"none">>
    /\ bt_status = "none"
    /\ bt_tree = <<>>
    /\ bt_result = <<"none">>

\* one turn of `while bt.process_level().is_ok() {}`
PBTProcessLevel ==
    /\ pbt_status = "constructing"
    /\ \E r \in {process_level(pbt_blocks, pbt_levels, pbt_input, pbt_level_block_sizes)} :
          /\ pbt_status' = CASE r.outcome = "ok" -> "constructing"
                             [] r.outcome = "done" -> "built"
                             [] OTHER -> "panicked"
          /\ pbt_blocks' = r.blocks
          /\ pbt_levels' = r.levels
          /\ pbt_is_internal' = IF r.outcome = "ok" THEN Append(pbt_is_internal, r.is_internal)
                                ELSE pbt_is_internal
    /\ UNCHANGED <<pbt_input, pbt_arity, pbt_leaf_length, pbt_level_block_sizes,
                   pbt_level_block_count, pbt_result, bt_vars>>

\* PointerBlockTree::get, on a tree that was not converted
PBTGet(i) ==
    /\ pbt_status = "built"
    /\ bt_status = "none"
    /\ pbt_result' = <<"get", i, Block_get(pbt_blocks, pbt_input, 0, i)>>
    /\ UNCHANGED <<pbt_input, pbt_arity, pbt_leaf_length, pbt_level_block_sizes,
                   pbt_level_block_count, pbt_blocks, pbt_levels, pbt_is_internal,
                   pbt_status, bt_vars>>

\* BlockTree::new: the conversion of the finished pointer block tree, which
\* takes the tree over (into)
BTConstruct ==
    /\ pbt_status = "built"
    /\ bt_status = "none"
    /\ \E build \in Builds :
       \E bt \in {construct(pbt_blocks, pbt_levels, pbt_input, pbt_arity,
                              pbt_level_block_sizes, pbt_level_block_count, build)} :
          /\ bt_status' = IF bt.panicked THEN "panicked" ELSE "built"
          /\ bt_tree' = IF bt.panicked THEN <<>> ELSE bt
    /\ pbt_result' = <<"none">>
    /\ UNCHANGED <<pbt_input, pbt_arity, pbt_leaf_length, pbt_level_block_sizes,
                   pbt_level_block_count, pbt_blocks, pbt_levels, pbt_is_internal,
                   pbt_status, bt_result>>

\* BlockTree::access
BTAccess(i) ==
    /\ bt_status = "built"
    /\ \E build \in {"debug", "release"} :
          bt_result' = <<"access", i, access(bt_tree, build, i)>>
    /\ UNCHANGED <<pbt_vars, bt_status, bt_tree>>

PBTGetStep == \E i \in 0..(Len(pbt_input) - 1) : PBTGet(i)
BTAccessStep == \E i \in 0..(Len(pbt_input) - 1) : BTAccess(i)

InitBT == BTInit /\ BVIdle /\ IVIdle /\ RHIdle /\ FPIdle
NextBT ==
    (PBTProcessLevel \/ PBTGetStep \/ BTConstruct \/ BTAccessStep)
    /\ UNCHANGED <<bv_vars, iv_vars, rh_vars, fp_vars>>
SpecBT == InitBT /\ [][NextBT]_vars

\* the back block with the given id has a source other than itself, and the
\* text under it (up to the end of the input) is the text at its offset in
\* the source
BackBlockCopiesSource(id) ==
    LET B == pbt_blocks[id + 1]
        S == pbt_blocks[B.source[2] + 1]
        n == Len(pbt_input)
        length == Min(B.end, n) - B.start
        source_start == S.start + B.offset[2]
    IN /\ B.source[2] # id
       /\ source_start + length <= n
       /\ \A j \in 1..length : pbt_input[B.start + j] = pbt_input[source_start + j]

\* C9: once the pointer block tree is constructed, every back block on
\* every level has a source different from itself, and the text of the block,
\* text[B.start .. min(B.end, n)), equals the text of the same length at
\* S.start + offset, for every input text.
C9_BackBlocksCopyTheirSource ==
    pbt_status = "built" =>
        \A d \in 1..Len(pbt_levels) : \A k \in 1..Len(pbt_levels[d]) :
            is_back_block(pbt_blocks[pbt_levels[d][k] + 1])
                => BackBlockCopiesSource(pbt_levels[d][k])

\* C8: PointerBlockTree::get(i) returns text[i] for every i in [0, |text|).
C8_GetReturnsText ==
    pbt_result[1] = "get" => pbt_result[3] = pbt_input[pbt_result[2] + 1]

\* C1: on every compact BlockTree that was built, access(i) returns text[i]
\* for every i in [0, |text|).
C1_AccessReturnsText ==
    bt_result[1] = "access" => bt_result[3] = pbt_input[bt_result[2] + 1]

\* C19: for every text of length n >= 1, arity >= 2 and leaf_length >= 1 the
\* construction of the pointer block tree completes: no Rabin-Karp window is
\* opened on a slice shorter than the window, not only when
\* n = leaf_length * arity^d.
C19_ConstructionCompletes ==
    (Len(pbt_input) >= 1 /\ pbt_arity >= 2 /\ pbt_leaf_length >= 1)
        => pbt_status # "panicked"

\* the back block with the given id on level d points to an internal block
\* of that level, at an offset inside the block size, and the position it
\* points to lies before its own start
BackBlockPointsBack(d, id) ==
    LET B == pbt_blocks[id + 1]
    IN /\ B.source # None
       /\ B.offset # None
       /\ \E k \in 1..Len(pbt_levels[d]) : pbt_levels[d][k] = B.source[2]
       /\ is_internal(pbt_blocks[B.source[2] + 1])
       /\ 0 <= B.offset[2]
       /\ B.offset[2] < pbt_level_block_sizes[d]
       /\ pbt_blocks[B.source[2] + 1].start + B.offset[2] < B.start

\* C20: after the construction of each level, every back block on it has a
\* source that is an internal block of the same level, an offset with
\* 0 <= offset < block size, and source.start + offset < its own start.
C20_BackBlocksPointBack ==
    pbt_status \in {"constructing", "built"} =>
        \A d \in 1..Len(pbt_levels) : \A k \in 1..Len(pbt_levels[d]) :
            is_back_block(pbt_blocks[pbt_levels[d][k] + 1])
                => BackBlockPointsBack(d, pbt_levels[d][k])

\* the ids of the back blocks of a level, in level order
BackBlocksOf(level) == SelectSeq(level, LAMBDA id : is_back_block(pbt_blocks[id + 1]))
\* the position of a block id in a level
LevelIndexOf(level, id) == CHOOSE k \in 0..(Len(level) - 1) : level[k + 1] = id
\* the number of internal blocks of the level before position idx
InternalBefore(level, idx) ==
    Cardinality({k \in 0..(idx - 1) : is_internal(pbt_blocks[level[k + 1] + 1])})

\* C21: for each retained level l of the compact tree, the j-th entry of
\* BackPointers[l] is the number of internal blocks before the source of the
\* j-th back block of the level (rank1 in IsInternal[l] of the source's
\* level index).
C21_BackPointersAreRanks ==
    bt_status = "built" =>
        \A l \in 1..Len(bt_tree.back_pointers) :
            LET level == pbt_levels[top_level_index(pbt_blocks, pbt_levels) + l]
                backs == BackBlocksOf(level)
            IN \A j \in 1..Len(backs) :
                LET src == pbt_blocks[backs[j] + 1].source[2]
                IN int_vec_get(bt_tree.back_pointers[l], j - 1)
                     = InternalBefore(level, LevelIndexOf(level, src))


\* C25: for every bit vector and every k < number_of_ones, select(k), in
\* both select implementations, reads only L1 entries with index <
\* l1_index.len(), sampled_ones entries with index < its length and backing
\* words with index < the number of backing words, and the L1 scan, the word
\* walk and the bit scan stop within those bounds.
C25_SelectReadsInBounds ==
    (fp_result[1] \in {"select", "rs_select"} /\ fp_result[2] < fp_number_of_ones) =>
        LET reads == fp_result[4]
        IN /\ \A i \in reads.sampled_ones : i < fp_sampled_ones.size
           /\ \A i \in reads.l1_index : i < Len(fp_l1_index)
           /\ \A i \in reads.raw : i < Len(fp_backing)
           /\ \A i \in reads.bits : i < WORD_SIZE
           /\ ~reads.more
\* C26: collecting a finite boolean sequence s into a BitVec yields
\* len == |s| and get(i) == s[i] for every i < |s|, whether or not the
\* iterator reports an upper size bound and whether or not that bound equals
\* the number of items produced.
C26_CollectKeepsSequence ==
    bv_last.op = "from_iter" =>
        /\ bv_last.panic = NoPanic
        /\ bv_size = Len(bv_last.bits)
        /\ \A i \in 0..(Len(bv_last.bits) - 1) :
              slice_get(bv_data, WholeSlice(bv_size), i).value = bv_last.bits[i + 1]
\* the number of 1-bits at the positions lo .. hi - 1 as get_bit reads them
OnesBetween(lo, hi) == Cardinality({j \in lo..(hi - 1) : get_bit_unchecked(fp_backing, j)})

\* C27: after the construction of a FlatPopcount over a bit vector of n
\* bits, L1[0].cumulative == 0; for every L1 block b (4096 * b <= n)
\* L1[b].cumulative is the number of ones in the bits [0, 4096 * b); and for
\* every sub-block j in 1..7 that starts inside the vector the stored delta
\* L2_j of block b is the number of ones in the bits
\* [4096 * b, 4096 * b + 512 * j).
C27_IndexCountsOnes ==
    fp_result = <<"new">> =>
        /\ Len(fp_l1_index) > 0
        /\ l1(fp_l1_index, 0) = 0
        /\ \A b \in 0..(fp_len \div L1_BLOCK_SIZE) :
            /\ b < Len(fp_l1_index)
            /\ l1(fp_l1_index, b) = OnesBetween(0, L1_BLOCK_SIZE * b)
            /\ \A j \in 1..7 :
                  L1_BLOCK_SIZE * b + L2_BLOCK_SIZE * j < fp_len =>
                      l2(fp_l1_index[b + 1], j - 1) =
                          OnesBetween(L1_BLOCK_SIZE * b, L1_BLOCK_SIZE * b + L2_BLOCK_SIZE * j)

\* the index over the pattern with ones at the bits 0 and 70 of every
\* second sub-block, 8193 bits long: 8 ones in each L1 block, and the
\* deltas of the second L1 block go up by two at every second sub-block
C27_Witness ==
    /\ fp_result = <<"new">>
    /\ fp_len = 2 * L1_BLOCK_SIZE + 1
    /\ l1(fp_l1_index, 1) = 8
    /\ l1(fp_l1_index, 2) = 16
    /\ L2Deltas(fp_l1_index[2]) = <<2, 2, 4, 4, 6, 6, 8>>
\* the distinct bytes of the input of the tree
InputBytes == {pbt_input[k] : k \in 1..Len(pbt_input)}

\* C28: AlphabetMapping::generate(text) is a bijection between the distinct
\* bytes of text and [0, sigma), sigma the number of distinct bytes:
\* from_ascii maps each byte of text into [0, sigma), distinct bytes get
\* distinct codes, and to_ascii(from_ascii(c)) == c for each byte c of text.
C28_AlphabetMappingIsBijection ==
    bt_status = "built" =>
        LET from_ascii == bt_tree.mapping.from_ascii
            to_ascii == bt_tree.mapping.to_ascii
            sigma == Cardinality(InputBytes)
        IN /\ \A c \in InputBytes : from_ascii[c] \in 0..(sigma - 1)
           /\ \A c, d \in InputBytes : c # d => from_ascii[c] # from_ascii[d]
           /\ \A c \in InputBytes : to_ascii[from_ascii[c]] = c
\* the L1 block b holds the one of rank r: fewer than r + 1 ones before the
\* block, and more than r ones up to its end
BlockHoldsOneOfRank(b, r) ==
    /\ OnesBetween(0, L1_BLOCK_SIZE * b) <= r
    /\ r < OnesBetween(0, Min(L1_BLOCK_SIZE * (b + 1), fp_len))

\* C29: after the construction of a FlatPopcount, sampled_ones has
\* ceil(number_of_ones / 8192) entries, and its j-th entry is the index of
\* the L1 block (bit position div 4096) that holds the one of rank 8192 * j.
C29_SamplesAreL1Blocks ==
    fp_result = <<"new">> =>
        /\ fp_sampled_ones.size = CeilDiv(fp_number_of_ones, 2 ^ SAMPLE_EXP)
        /\ \A j \in 0..(fp_sampled_ones.size - 1) :
              BlockHoldsOneOfRank(
                  Nat_of(dyn_get_unchecked_with_width(fp_sampled_ones.data, j,
                                                      fp_sampled_ones.width)),
                  (2 ^ SAMPLE_EXP) * j)
\* the length bytes of the input from pos on are those from start on, the
\* bytes past the end of the input read as 0
SameContent(pos, start, length) ==
    \A k \in 0..(length - 1) :
        byte_or_default(pbt_input, pos + k) = byte_or_default(pbt_input, start + k)

\* the occurrence recorded in the internal block with the given id is the
\* leftmost occurrence of the content of the block
RecordedOccurrenceIsEarliest(id) ==
    LET B == pbt_blocks[id + 1]
        pos == pbt_blocks[B.source[2] + 1].start + B.offset[2]
    IN /\ pos <= B.start
       /\ SameContent(pos, B.start, block_len(B))
       /\ \A q \in 0..(pos - 1) : ~SameContent(q, B.start, block_len(B))

\* C30: after scan_blocks on a level every internal block B with a recorded
\* earliest occurrence (source, offset) has
\* text[source.start + offset .. source.start + offset + |B|) ==
\* text[B.start .. B.end), and source.start + offset <= B.start is the
\* leftmost position at which the content of B occurs.
C30_RecordedOccurrenceIsEarliest ==
    \A id \in 0..(Len(pbt_blocks) - 1) :
        (is_internal(pbt_blocks[id + 1]) /\ pbt_blocks[id + 1].source # None) =>
            RecordedOccurrenceIsEarliest(id)
====
